---- MODULE Spec2Model ----
(***************************************************************************)
(* A model of the QEMU command line synthesis of libvirt's qemu driver,    *)
(* src/qemu/qemu_command.c.  One synthesis pass (qemuBuildCommandLine)     *)
(* walks the domain definition and appends fragments to a virCommand; the  *)
(* pass is modelled as a sequence of steps, one per builder called by      *)
(* qemuBuildCommandLine, in the order of the calls.  A fragment is a       *)
(* record that keeps what the properties talk about: the flag, the alias   *)
(* it introduces, the aliases it references and by which key, the device   *)
(* it belongs to, and the file descriptors it mentions.                    *)
(***************************************************************************)
EXTENDS Integers, Sequences, FiniteSets, TLC

VARIABLES
    def,        \* vm->def, the domain definition the pass reads (and writes)
    def0,       \* history: the definition as it was when the pass started
    caps,       \* priv->qemuCaps, the set of capability flags of the binary
    args,       \* the scalar arguments of qemuBuildCommandLine
    pc,         \* the next builder qemuBuildCommandLine calls
    cmd,        \* the virCommand being built: a sequence of fragments
    cmdFds,     \* descriptors handed to the virCommand (closed when it is freed)
    openFds,    \* descriptors opened during the pass that are still open
    ret,        \* what qemuBuildCommandLine returned: "none" yet, "cmd", "NULL"
    err,        \* the error reported on the failing path (NoErr when none)
    failed,     \* history: the builders that returned a failure in this pass
    passFds,    \* history: every descriptor opened during the pass
    call,       \* one call of a helper function: its input and its result
    bootHostdevNet, \* the local of qemuBuildCommandLine that hands the boot
                    \* index of the network from the interfaces to the
                    \* host devices
    nwfilterTeardown \* history: the interfaces virDomainConfNWFilterTeardown
                     \* was called for during the pass, in call order

vars ==
    <<def, def0, caps, args, pc, cmd, cmdFds, openFds, ret, err, failed, passFds,
      call, bootHostdevNet, nwfilterTeardown>>

-----------------------------------------------------------------------------
(* Bounds of the explored inputs *)

MaxLayers == 2
MaxQueues == 2
MaxBus == 2

-----------------------------------------------------------------------------
(* Sequence helpers *)

Range(s) == {s[i] : i \in 1..Len(s)}

RECURSIVE Flatten(_)
Flatten(ss) == IF ss = <<>> THEN <<>> ELSE Head(ss) \o Flatten(Tail(ss))

-----------------------------------------------------------------------------
(* Fragments: what virCommandAddArg* appended to the command *)

Frag(flag, dev, kind, id, refs) ==
    [flag |-> flag, cat |-> "", dev |-> dev, kind |-> kind, id |-> id,
     refs |-> refs, layer |-> 0, text |-> "", addfd |-> "", fdsets |-> {}]

Plain(flag) == Frag(flag, "", "", "", {})

Inline(flag, cat) == [Plain(flag) EXCEPT !.cat = cat]

Ref(key, alias) == <<key, alias>>

(* The result of one builder: its return code, the error it reported, the   *)
(* fragments it appended before returning, the descriptors it opened,       *)
(* closed and handed to the command, and the nested builders that failed.   *)
Res(rc, e, out) ==
    [rc |-> rc, err |-> e, out |-> out, opened |-> {}, closed |-> {},
     passed |-> <<>>, failed |-> {}]

(* virReportError(code, msg) *)
Err(code, msg) == [code |-> code, msg |-> msg]

NoErr == Err("", "")

Ok(out) == Res(0, NoErr, out)

Fail(code, msg) == Res(-1, Err(code, msg), <<>>)

(* a; if (a < 0) return -1; b *)
Then(a, b) ==
    IF a.rc < 0 THEN a
    ELSE [rc |-> b.rc, err |-> b.err, out |-> a.out \o b.out,
          opened |-> a.opened \cup b.opened,
          closed |-> a.closed \cup b.closed,
          passed |-> a.passed \o b.passed,
          failed |-> a.failed \cup b.failed]

RECURSIVE Chain(_)
Chain(rs) == IF rs = <<>> THEN Ok(<<>>) ELSE Then(Head(rs), Chain(Tail(rs)))

(* a call whose return value the caller does not look at *)
Ignored(name, r) ==
    [r EXCEPT !.rc = 0,
              !.failed = @ \cup (IF r.rc < 0 THEN {name} ELSE {})]

-----------------------------------------------------------------------------
(* qemuBuildCommandLine: the order of the builder calls *)

Order ==
    << "Validate", "Name", "CompatDeprecated", "MasterKey", "DBusVMState",
       "ManagedPR", "PflashBlockdev", "Machine", "TSEG", "Cpu",
       "DomainLoader", "Mem", "Smp", "IOThread", "Numa", "MemoryDevice",
       "Uuid", "Smbios", "Sysinfo", "VMGenID", "Sga", "Monitor", "Clock",
       "PM", "Boot", "IOMMU", "GlobalController", "Controllers", "Hub",
       "ControllersByType", "Disks", "Filesystem", "Net", "Smartcard",
       "Serial", "Parallels", "Channels", "Console", "TPMs", "Input",
       "Audio", "Graphics", "Video", "Sound", "Watchdog", "Redirdev",
       "Hostdev", "Memballoon", "RNG", "NVRAM", "VMCoreInfo", "Sec",
       "Loadvm", "SeccompSandbox", "Panic", "Shmem", "Vsock", "Return" >>

(* a variant order in which the disks are built before the controllers *)
OrderDisksFirst ==
    [i \in 1..Len(Order) |->
        IF Order[i] = "Controllers" THEN "Disks"
        ELSE IF Order[i] = "Disks" THEN "Controllers" ELSE Order[i]]

AfterDisksFirst(ph) ==
    OrderDisksFirst[(CHOOSE i \in 1..Len(Order) : OrderDisksFirst[i] = ph) + 1]

IndexOf(ph) == CHOOSE i \in 1..Len(Order) : Order[i] = ph

After(ph) == Order[IndexOf(ph) + 1]

(* fragments qemuBuildCommandLine appends itself carry their own category *)
Tag(cat, out) ==
    [i \in 1..Len(out) |->
        IF out[i].cat = "" THEN [out[i] EXCEPT !.cat = cat] ELSE out[i]]

(* One call "if (builder(cmd, ...) < 0) return NULL;" of qemuBuildCommandLine. *)
(* On failure the g_autoptr frees the command, which closes every descriptor *)
(* handed to it; the descriptors the builder left open stay open.            *)
ApplyWith(ph, cat, r, d, boot, torn) ==
    /\ pc = ph
    /\ def' = d
    /\ bootHostdevNet' = boot
    /\ nwfilterTeardown' = nwfilterTeardown \o torn
    /\ failed' = failed \cup r.failed \cup (IF r.rc < 0 THEN {ph} ELSE {})
    /\ passFds' = passFds \cup r.opened
    /\ IF r.rc < 0
       THEN /\ ret' = "NULL"
            /\ err' = r.err
            /\ cmd' = <<>>
            /\ cmdFds' = <<>>
            /\ openFds' = ((openFds \cup r.opened) \ r.closed)
                              \ (Range(cmdFds) \cup Range(r.passed))
            /\ pc' = "done"
       ELSE /\ ret' = ret
            /\ err' = err
            /\ cmd' = cmd \o Tag(cat, r.out)
            /\ cmdFds' = cmdFds \o r.passed
            /\ openFds' = (openFds \cup r.opened) \ r.closed
            /\ pc' = After(ph)
    /\ UNCHANGED <<def0, caps, args, call>>

(* a builder that is not handed &bootHostdevNet and tears down no filter *)
Apply(ph, cat, r, d) == ApplyWith(ph, cat, r, d, bootHostdevNet, <<>>)

-----------------------------------------------------------------------------
(* The domain definition.  Builders that the properties below do not look   *)
(* into are modelled by what qemuBuildCommandLine sees of them: the         *)
(* fragments of their category when the definition has the feature, and a   *)
(* failure when the definition is one they reject (def.bad names them).     *)

(* virDomainDeviceInfo: the address kind and the members of the address     *)
(* union (bus, slot and function also stand for the members of the other   *)
(* address kinds: USB bus and port, CCW cssid/ssid/devno, ISA iobase/irq,  *)
(* DIMM base and slot, spapr-vio reg).                                      *)
NoInfo ==
    [type |-> "none", bus |-> 0, slot |-> 0, function |-> 0,
     multi |-> "absent", acpiIndex |-> 0]

PciInfo(bus, slot) == [NoInfo EXCEPT !.type = "pci", !.bus = bus, !.slot = slot]

PciRoot ==
    [type |-> "pci", idx |-> 0, alias |-> "pci.0", model |-> "pci-root",
     targetIndex |-> 0, info |-> NoInfo]

BaseDef ==
    [ virtType    |-> "kvm",
      machine     |-> "pc",
      pciMultiBus |-> TRUE,
      loader      |-> "none",
      cells       |-> <<>>,
      hmat        |-> FALSE,
      numaDistances |-> FALSE,
      mem         |-> [size |-> 1048576, access |-> "default",
                       source |-> "none", hugepages |-> "none",
                       allocation |-> "none", discard |-> "absent",
                       locked |-> FALSE,
                       path |-> "/var/lib/libvirt/qemu/ram/1-guest"],
      audios      |-> <<>>,
      graphics    |-> <<>>,
      clock       |-> [offset |-> "utc", basis |-> "utc", adjustment |-> 0,
                       adjustment0 |-> 0, rtc |-> "none", timer |-> "none"],
      sec         |-> "none",
      managedPR   |-> FALSE,
      controllers |-> << PciRoot >>,
      disks       |-> <<>>,
      nets        |-> <<>>,
      bootDevs    |-> <<>>,
      chardevs    |-> <<>>,
      tpms        |-> <<>>,
      hostdevs    |-> <<>>,
      shmems      |-> <<>>,
      panics      |-> <<>>,
      videos      |-> <<>>,
      has         |-> {},
      bad         |-> "none" ]

BaseArgs ==
    [ standalone |-> FALSE, enableFips |-> FALSE, migrateURI |-> FALSE,
      snapshot |-> FALSE, logManager |-> FALSE, chardevStdioLogd |-> FALSE,
      hugetlbfs |-> TRUE, logTimestamp |-> TRUE ]

NoCall == [fn |-> "none"]

AllCaps ==
    { "QEMU_CAPS_BLOCKDEV", "QEMU_CAPS_OBJECT_SECRET",
      "QEMU_CAPS_OBJECT_QAPIFIED", "QEMU_CAPS_OVERCOMMIT",
      "QEMU_CAPS_OBJECT_MEMORY_RAM", "QEMU_CAPS_OBJECT_MEMORY_FILE",
      "QEMU_CAPS_OBJECT_MEMORY_MEMFD", "QEMU_CAPS_CHARDEV_FD_PASS_COMMANDLINE",
      "QEMU_CAPS_VIRTIO_PCI_TRANSITIONAL", "QEMU_CAPS_VIRTIO_PCI_DISABLE_LEGACY",
      "MachineDefaultRAMid", "MachineNumaMemSupported" }

(* a builder that is not looked into *)
Builder(d, name, out) ==
    IF d.bad = name THEN Fail("VIR_ERR_CONFIG_UNSUPPORTED", name)
    ELSE Ok(IF name \in d.has THEN out ELSE <<>>)

-----------------------------------------------------------------------------
(* Text formatting: "%u" and "%x" of virBufferAsprintf *)

DecDigits == << "0", "1", "2", "3", "4", "5", "6", "7", "8", "9" >>

HexDigits == DecDigits \o << "a", "b", "c", "d", "e", "f" >>

RECURSIVE Dec(_)
Dec(n) == IF n < 10 THEN DecDigits[n + 1]
          ELSE Dec(n \div 10) \o DecDigits[(n % 10) + 1]

(* "%+d" *)
SDec(n) == IF n < 0 THEN "-" \o Dec(0 - n) ELSE "+" \o Dec(n)

RECURSIVE Hex(_)
Hex(n) == IF n < 16 THEN HexDigits[n + 1]
          ELSE Hex(n \div 16) \o HexDigits[(n % 16) + 1]

-----------------------------------------------------------------------------
(* unsigned long long: a 64 bit value as four 16 bit limbs, the least       *)
(* significant first, with the arithmetic of C (modulo 2^64)                *)

U64(n) == << n % 65536, (n \div 65536) % 65536, 0, 0 >>

(* an unsigned long long given in two parts: hi * 2^32 + lo *)
U64Of(lo, hi) ==
    << lo % 65536, (lo \div 65536) % 65536,
       hi % 65536, (hi \div 65536) % 65536 >>

(* the value as an unsigned int keeps it: the low 32 bits *)
U32(u) == << u[1], u[2], 0, 0 >>

U64IsZero(u) == u = << 0, 0, 0, 0 >>

(* u * 1024, as "mem->size * 1024" computes it *)
U64Mul1024(u) ==
    LET m1 == u[1] * 1024
        m2 == u[2] * 1024 + m1 \div 65536
        m3 == u[3] * 1024 + m2 \div 65536
        m4 == u[4] * 1024 + m3 \div 65536
    IN << m1 % 65536, m2 % 65536, m3 % 65536, m4 % 65536 >>

(* u / 10 and u % 10 *)
U64DivMod10(u) ==
    LET c4 == u[4]
        c3 == (c4 % 10) * 65536 + u[3]
        c2 == (c3 % 10) * 65536 + u[2]
        c1 == (c2 % 10) * 65536 + u[1]
    IN [q |-> << c1 \div 10, c2 \div 10, c3 \div 10, c4 \div 10 >>,
        r |-> c1 % 10]

(* "%llu" *)
RECURSIVE U64Dec(_)
U64Dec(u) ==
    LET d == U64DivMod10(u) IN
    IF U64IsZero(d.q) THEN DecDigits[d.r + 1]
    ELSE U64Dec(d.q) \o DecDigits[d.r + 1]

-----------------------------------------------------------------------------
(* Escaping of free text in comma separated option text *)

(* virQEMUBuildBufferEscapeComma: every comma of the value is doubled *)
RECURSIVE virQEMUBuildBufferEscapeComma(_)
virQEMUBuildBufferEscapeComma(str) ==
    IF str = "" THEN ""
    ELSE LET c == SubSeq(str, 1, 1) IN
         (IF c = "," THEN ",," ELSE c)
             \o virQEMUBuildBufferEscapeComma(SubSeq(str, 2, Len(str)))

-----------------------------------------------------------------------------
(* Property trees (virJSONValue objects): a sequence of keys with typed     *)
(* values, in the order of insertion.                                       *)

JStr(s) == [t |-> "string", s |-> s, u |-> U64(0), b |-> FALSE, a |-> <<>>]

JNum(u) == [t |-> "number", s |-> "", u |-> u, b |-> FALSE, a |-> <<>>]

JBool(b) == [t |-> "boolean", s |-> "", u |-> U64(0), b |-> b, a |-> <<>>]

(* an array of small numbers (a bitmap such as host-nodes) *)
JArr(a) == [t |-> "array", s |-> "", u |-> U64(0), b |-> FALSE, a |-> a]

Pair(key, val) == [key |-> key, val |-> val]

(* NULL, or the string *)
NoString == [null |-> TRUE, s |-> ""]

virJSONValueObjectGetString(tree, key) ==
    LET hits == { i \in 1..Len(tree) : tree[i].key = key } IN
    IF hits = {} THEN NoString
    ELSE LET i == CHOOSE h \in hits : \A g \in hits : h <= g IN
         IF tree[i].val.t = "string"
         THEN [null |-> FALSE, s |-> tree[i].val.s] ELSE NoString

NULLSTR(str) == IF str.null THEN "<null>" ELSE str.s

(* the text between the quotes of a JSON string *)
RECURSIVE JSONEscape(_)
JSONEscape(str) ==
    IF str = "" THEN ""
    ELSE LET c == SubSeq(str, 1, 1) IN
         (IF c \in { "\"", "\\" } THEN "\\" \o c ELSE c)
             \o JSONEscape(SubSeq(str, 2, Len(str)))

RECURSIVE Join(_, _)
Join(texts, sep) ==
    IF texts = <<>> THEN ""
    ELSE IF Len(texts) = 1 THEN texts[1]
    ELSE texts[1] \o sep \o Join(Tail(texts), sep)

JSONValueText(val) ==
    CASE val.t = "string" -> "\"" \o JSONEscape(val.s) \o "\""
      [] val.t = "number" -> U64Dec(val.u)
      [] val.t = "boolean" -> IF val.b THEN "true" ELSE "false"
      [] val.t = "array" ->
             "[" \o Join([i \in 1..Len(val.a) |-> Dec(val.a[i])], ",") \o "]"

(* the structured encoding: every key in the order of the tree *)
virJSONValueToBuffer(tree) ==
    "{" \o Join([i \in 1..Len(tree) |->
                    "\"" \o JSONEscape(tree[i].key) \o "\":"
                        \o JSONValueText(tree[i].val)], ",") \o "}"

(* the flat encoding of one value *)
CommandLineValueText(val) ==
    CASE val.t = "string" -> virQEMUBuildBufferEscapeComma(val.s)
      [] val.t = "number" -> U64Dec(val.u)
      [] val.t = "boolean" -> IF val.b THEN "on" ELSE "off"
      [] val.t = "array" ->
             Join([i \in 1..Len(val.a) |-> Dec(val.a[i])], ":")

(* the flat encoding: key=value of every key but skipKey, comma separated *)
virQEMUBuildCommandLineJSON(tree, skipKey) ==
    LET Kept(p) == p.key # skipKey
        kept == SelectSeq(tree, Kept)
    IN Join([i \in 1..Len(kept) |->
                kept[i].key \o "=" \o CommandLineValueText(kept[i].val)], ",")

(* The result of a builder of option text: return code, reported error,    *)
(* the text appended to the buffer, and the aliases the text references.    *)
Str(text, refs) == [rc |-> 0, err |-> NoErr, text |-> text, refs |-> refs]

StrFail(code, msg) ==
    [rc |-> -1, err |-> Err(code, msg), text |-> "", refs |-> {}]

(* append b's text after a's, unless a failed *)
StrThen(a, b) ==
    IF a.rc < 0 THEN a
    ELSE IF b.rc < 0 THEN b
    ELSE Str(a.text \o b.text, a.refs \cup b.refs)

(* virReportEnumRangeError reports VIR_ERR_INTERNAL_ERROR *)
virReportEnumRangeError(typname, value) ==
    StrFail("VIR_ERR_INTERNAL_ERROR",
            "Unexpected enum value " \o value \o " for " \o typname)

-----------------------------------------------------------------------------
(* qemuBuildDeviceAddressStr: the ",bus=...,addr=..." text of a device      *)

(* aliases of the explored definitions that carry the user prefix "ua-" *)
UserAliases == { "ua-root", "ua-bridge" }

virDomainDeviceAliasIsUserAlias(alias) == alias \in UserAliases

(* "%04x:%02x:%02x.%d" of a PCI address in domain 0 *)
virPCIDeviceAddressAsString(info) ==
    "0000:" \o (IF info.bus < 16 THEN "0" ELSE "") \o Hex(info.bus)
            \o ":" \o (IF info.slot < 16 THEN "0" ELSE "") \o Hex(info.slot)
            \o "." \o Dec(info.function)

(* the first PCI controller whose index is the bus of the address, 0 if none *)
FindPCIController(controllers, bus) ==
    LET hits == {i \in 1..Len(controllers) :
                    /\ controllers[i].type = "pci"
                    /\ controllers[i].idx = bus}
    IN IF hits = {} THEN 0 ELSE CHOOSE i \in hits : \A j \in hits : i <= j

PCIContAlias(d, cont) ==
    IF virDomainDeviceAliasIsUserAlias(cont.alias)
    THEN IF d.machine # "pseries" /\ cont.model = "pci-root"
         THEN (IF d.pciMultiBus THEN "pci.0" ELSE "pci")
         ELSE IF cont.model = "pcie-root" THEN "pcie.0" ELSE cont.alias
    ELSE cont.alias

(* a variant that looks for no controller and formats no address *)
DeviceAddressStrUnchecked(d, info) == Str("", {})

qemuBuildDeviceAddressStr(d, info) ==
    CASE info.type = "pci" ->
           LET i == FindPCIController(d.controllers, info.bus) IN
           IF i = 0
           THEN StrFail("VIR_ERR_INTERNAL_ERROR",
                        "Could not find PCI controller with index "
                            \o Dec(info.bus)
                            \o " required for device at address "
                            \o virPCIDeviceAddressAsString(info))
           ELSE IF d.controllers[i].alias = ""
           THEN StrFail("VIR_ERR_INTERNAL_ERROR",
                        "Device alias was not set for PCI controller with index "
                            \o Dec(info.bus)
                            \o " required for device at address "
                            \o virPCIDeviceAddressAsString(info))
           ELSE
             LET cont == d.controllers[i]
                 contAlias == PCIContAlias(d, cont)
                 busName == IF cont.model = "spapr-pci-host-bridge"
                               /\ cont.targetIndex > 0
                            THEN contAlias \o ".0" ELSE contAlias
             IN Str(",bus=" \o busName
                    \o (IF info.multi = "on" THEN ",multifunction=on"
                        ELSE IF info.multi = "off" THEN ",multifunction=off"
                        ELSE "")
                    \o ",addr=0x" \o Hex(info.slot)
                    \o (IF info.function # 0
                        THEN ".0x" \o Hex(info.function) ELSE "")
                    \o (IF info.acpiIndex # 0
                        THEN ",acpi-index=" \o Dec(info.acpiIndex) ELSE ""),
                    {Ref("bus", busName)})
      [] info.type = "usb" ->
           LET hits == {i \in 1..Len(d.controllers) :
                           /\ d.controllers[i].type = "usb"
                           /\ d.controllers[i].idx = info.bus
                           /\ d.controllers[i].alias # ""}
           IN IF hits = {}
              THEN StrFail("VIR_ERR_INTERNAL_ERROR",
                           "Could not find usb controller with index "
                               \o Dec(info.bus))
              ELSE LET a == d.controllers[CHOOSE i \in hits : TRUE].alias
                   IN Str(",bus=" \o a \o ".0"
                          \o (IF info.slot # 0
                              THEN ",port=" \o Dec(info.slot) ELSE ""),
                          {Ref("bus", a \o ".0")})
      [] info.type = "spapr-vio" ->
           Str(IF info.slot # 0 THEN ",reg=0x" \o Hex(info.slot) ELSE "", {})
      [] info.type = "ccw" ->
           Str(IF info.slot # 0
               THEN ",devno=" \o Hex(info.bus) \o "." \o Hex(info.function)
                        \o "." \o Hex(info.slot)
               ELSE "", {})
      [] info.type = "isa" ->
           Str(",iobase=0x" \o Hex(info.bus) \o ",irq=0x" \o Hex(info.slot), {})
      [] info.type = "dimm" ->
           Str(",slot=" \o Dec(info.slot)
               \o (IF info.bus # 0 THEN ",addr=" \o Dec(info.bus) ELSE ""), {})
      [] info.type \in { "none", "drive", "virtio-serial", "ccid",
                         "virtio-s390", "virtio-mmio", "unassigned" } ->
           Str("", {})
      [] info.type = "last" ->
           virReportEnumRangeError("virDomainDeviceAddressType", info.type)
      [] OTHER -> Str("", {})

-----------------------------------------------------------------------------
(* qemuBuildVirtioDevStr: the name of a virtio device, "<base>-<transport>" *)
(* with the suffix of its (non-)transitional model.  dev is the device      *)
(* definition: its address info, its model, and for host devices, inputs    *)
(* and controllers the sub-type the function looks at.                      *)

VirtioImplName(type) ==
    CASE type = "pci" -> "pci"
      [] type = "virtio-mmio" -> "device"
      [] type = "ccw" -> "ccw"
      [] OTHER -> ""

(* device types whose definition has a virtio model the function reads *)
VirtioHasModel(devtype, dev) ==
    CASE devtype \in { "VIR_DOMAIN_DEVICE_DISK", "VIR_DOMAIN_DEVICE_NET",
                       "VIR_DOMAIN_DEVICE_RNG", "VIR_DOMAIN_DEVICE_FS",
                       "VIR_DOMAIN_DEVICE_MEMBALLOON",
                       "VIR_DOMAIN_DEVICE_VSOCK" } -> TRUE
      [] devtype = "VIR_DOMAIN_DEVICE_HOSTDEV" -> dev.sub = "scsi_host"
      [] devtype = "VIR_DOMAIN_DEVICE_INPUT" -> dev.sub = "passthrough"
      [] devtype = "VIR_DOMAIN_DEVICE_CONTROLLER" ->
             dev.sub \in { "virtio-serial", "scsi" }
      [] OTHER -> FALSE

(* a variant that falls back to the plain device name *)
VirtioModelSuffixFallback(qemuCaps, dev) == Str("", {})

VirtioModelSuffix(qemuCaps, dev) ==
    LET has_tmodel == dev.model = "virtio-transitional"
        has_ntmodel == dev.model = "virtio-non-transitional"
    IN
    IF dev.info.type # "pci" /\ (has_tmodel \/ has_ntmodel)
    THEN StrFail("VIR_ERR_CONFIG_UNSUPPORTED",
                 "virtio (non-)transitional models are not supported for address type="
                     \o dev.info.type)
    ELSE IF has_tmodel
    THEN IF "QEMU_CAPS_VIRTIO_PCI_TRANSITIONAL" \in qemuCaps
         THEN Str("-transitional", {})
         ELSE IF "QEMU_CAPS_VIRTIO_PCI_DISABLE_LEGACY" \in qemuCaps
         THEN Str(",disable-legacy=off,disable-modern=off", {})
         ELSE Str("", {})
    ELSE IF has_ntmodel
    THEN IF "QEMU_CAPS_VIRTIO_PCI_TRANSITIONAL" \in qemuCaps
         THEN Str("-non-transitional", {})
         ELSE IF "QEMU_CAPS_VIRTIO_PCI_DISABLE_LEGACY" \in qemuCaps
         THEN Str(",disable-legacy=on,disable-modern=off", {})
         ELSE StrFail("VIR_ERR_CONFIG_UNSUPPORTED",
                      "virtio non-transitional model not supported for this qemu")
    ELSE Str("", {})

(* a variant that treats every address kind as PCI *)
VirtioDevStrAnyAddress(baseName, qemuCaps, devtype, dev) ==
    Str(baseName \o "-pci", {})

qemuBuildVirtioDevStr(baseName, qemuCaps, devtype, dev) ==
    IF dev.info.type \in { "pci", "virtio-mmio", "ccw" }
    THEN StrThen(Str(baseName \o "-" \o VirtioImplName(dev.info.type), {}),
                 IF VirtioHasModel(devtype, dev)
                 THEN VirtioModelSuffix(qemuCaps, dev)
                 ELSE Str("", {}))
    ELSE IF dev.info.type \in { "virtio-s390", "drive", "virtio-serial", "ccid",
                                "usb", "spapr-vio", "isa", "dimm" }
    THEN StrFail("VIR_ERR_INTERNAL_ERROR",
                 "Unexpected address type for '" \o baseName \o "'")
    ELSE virReportEnumRangeError("virDomainDeviceAddressType", dev.info.type)

-----------------------------------------------------------------------------
(* -object fragments *)

(* props: the tree, with the alias it introduces and the aliases it refers  *)
(* to kept beside it.  The builders prepend "qom-type" and "id".            *)
NullProps ==
    [null |-> TRUE, qomType |-> "", id |-> "", refs |-> {}, tree |-> <<>>]

Props(qomType, id, refs) ==
    [null |-> FALSE, qomType |-> qomType, id |-> id, refs |-> refs,
     tree |-> << Pair("qom-type", JStr(qomType)), Pair("id", JStr(id)) >>]

(* virJSONValueObjectAdd: more keys after those of the tree *)
PropsAdd(props, pairs) == [props EXCEPT !.tree = @ \o pairs]

(* a variant whose flat encoding leaves out every string valued key *)
ObjectCommandlineFromJSONDropsStrings(props, qemuCaps) ==
    LET type == virJSONValueObjectGetString(props.tree, "qom-type")
        alias == virJSONValueObjectGetString(props.tree, "id")
        Kept(p) == p.val.t # "string"
    IN IF type.null \/ alias.null
       THEN StrFail("VIR_ERR_INTERNAL_ERROR", "missing field of QOM 'object'")
       ELSE IF "QEMU_CAPS_OBJECT_QAPIFIED" \in qemuCaps
       THEN Str(virJSONValueToBuffer(props.tree), props.refs)
       ELSE Str(type.s \o ","
                   \o virQEMUBuildCommandLineJSON(SelectSeq(props.tree, Kept),
                                                  "qom-type"),
                props.refs)

(* the emitter without its check of the two mandatory keys *)
ObjectCommandlineFromJSONUnchecked(props, qemuCaps) ==
    LET type == virJSONValueObjectGetString(props.tree, "qom-type")
    IN IF "QEMU_CAPS_OBJECT_QAPIFIED" \in qemuCaps
       THEN Str(virJSONValueToBuffer(props.tree), props.refs)
       ELSE Str(NULLSTR(type) \o ","
                   \o virQEMUBuildCommandLineJSON(props.tree, "qom-type"),
                props.refs)

qemuBuildObjectCommandlineFromJSON(props, qemuCaps) ==
    LET type == virJSONValueObjectGetString(props.tree, "qom-type")
        alias == virJSONValueObjectGetString(props.tree, "id")
    IN IF type.null \/ alias.null
       THEN StrFail("VIR_ERR_INTERNAL_ERROR",
                    "missing 'type'(" \o NULLSTR(type) \o ") or 'alias'("
                        \o NULLSTR(alias) \o ") field of QOM 'object'")
       ELSE IF "QEMU_CAPS_OBJECT_QAPIFIED" \in qemuCaps
       THEN Str(virJSONValueToBuffer(props.tree), props.refs)
       ELSE Str(type.s \o ","
                   \o virQEMUBuildCommandLineJSON(props.tree, "qom-type"),
                props.refs)

qemuBuildObjectCommandline(objProps, qemuCaps, dev, kind, layer) ==
    IF objProps.null THEN Ok(<<>>)
    ELSE LET str == qemuBuildObjectCommandlineFromJSON(objProps, qemuCaps) IN
         IF str.rc < 0 THEN Res(-1, str.err, <<>>)
         ELSE Ok(<< [Frag("-object", dev, kind, objProps.id, objProps.refs)
                        EXCEPT !.layer = layer, !.text = str.text] >>)

-----------------------------------------------------------------------------
(* Storage sources.  A disk source is a chain of layers, the top image      *)
(* first; a layer lists the helper objects it needs (src.objs) and whether  *)
(* it has a slice.  qemuBlockStorageSourceAttachData is what one layer      *)
(* contributes to the command line.                                         *)

NoData(dev, layer) ==
    [dev |-> dev, layer |-> layer,
     prmgrProps |-> NullProps, authsecretProps |-> NullProps,
     encryptsecretProps |-> NullProps, httpcookiesecretProps |-> NullProps,
     tlsKeySecretProps |-> NullProps, tlsProps |-> NullProps,
     driveCmd |-> "", chardevCmd |-> "", storageProps |-> "",
     storageSliceProps |-> "", formatProps |-> "", backing |-> ""]

ObjAlias(dev, layer, kind) == dev \o "-" \o Dec(layer) \o "-" \o kind

NodeName(dev, layer, what) == "libvirt-" \o dev \o "-" \o Dec(layer) \o "-" \o what

qemuBuildStorageSourceAttachPrepareCommon(src, data) ==
    LET P(kind, qom, refs) ==
            IF kind \in src.objs
            THEN Props(qom, ObjAlias(data.dev, data.layer, kind), refs)
            ELSE NullProps
    IN [data EXCEPT
          !.prmgrProps = P("prmgr", "pr-manager-helper", {}),
          !.authsecretProps = P("authsecret", "secret", {}),
          !.encryptsecretProps = P("encryptsecret", "secret", {}),
          !.httpcookiesecretProps = P("httpcookiesecret", "secret", {}),
          !.tlsKeySecretProps = P("tlsKeySecret", "secret", {}),
          !.tlsProps =
              P("tls", "tls-creds-x509",
                IF "tlsKeySecret" \in src.objs
                THEN {Ref("passwordid",
                          ObjAlias(data.dev, data.layer, "tlsKeySecret"))}
                ELSE {})]

qemuBuildStorageSourceChainAttachPrepareDrive(disk) ==
    << qemuBuildStorageSourceAttachPrepareCommon(
           disk.src[1],
           [NoData(disk.alias, 1) EXCEPT !.driveCmd = "drive-" \o disk.alias]) >>

qemuBuildStorageSourceChainAttachPrepareChardev(disk) ==
    << [NoData(disk.alias, 1) EXCEPT !.chardevCmd = "chr-vu-" \o disk.alias] >>

qemuBuildStorageSourceChainAttachPrepareBlockdevOne(dev, src, layer, backing) ==
    qemuBuildStorageSourceAttachPrepareCommon(
        src,
        [NoData(dev, layer) EXCEPT
            !.storageProps = NodeName(dev, layer, "storage"),
            !.storageSliceProps =
                IF src.slice THEN NodeName(dev, layer, "slice") ELSE "",
            !.formatProps = NodeName(dev, layer, "format"),
            !.backing = IF backing THEN NodeName(dev, layer + 1, "format")
                        ELSE ""])

(* for (n = top; virStorageSourceIsBacking(n); n = n->backingStore) *)
qemuBuildStorageSourceChainAttachPrepareBlockdev(dev, chain) ==
    [i \in 1..Len(chain) |->
        qemuBuildStorageSourceChainAttachPrepareBlockdevOne(
            dev, chain[i], i, i < Len(chain))]

(* a variant that adds the backend of a source before its TLS credentials *)
AttachDataBackendFirst(data, qemuCaps) ==
    LET O(props, kind) ==
            qemuBuildObjectCommandline(props, qemuCaps, data.dev, kind,
                                       data.layer)
        node == IF data.driveCmd # "" THEN data.driveCmd
                ELSE IF data.chardevCmd # "" THEN data.chardevCmd
                ELSE data.formatProps
    IN Chain(<<
         Ok(<< [Frag("-blockdev", data.dev, "backend", node, {})
                   EXCEPT !.layer = data.layer] >>),
         O(data.prmgrProps, "prmgr"),
         O(data.authsecretProps, "authsecret"),
         O(data.tlsProps, "tls") >>)

qemuBuildBlockStorageSourceAttachDataCommandline(data, qemuCaps) ==
    LET O(props, kind) ==
            qemuBuildObjectCommandline(props, qemuCaps, data.dev, kind,
                                       data.layer)
        B(flag, kind, id, refs) ==
            IF id = "" THEN <<>>
            ELSE << [Frag(flag, data.dev, kind, id, refs)
                        EXCEPT !.layer = data.layer] >>
        tlsref == IF data.tlsProps.null THEN {}
                  ELSE {Ref("tls-creds", data.tlsProps.id)}
        under == IF data.storageSliceProps # "" THEN data.storageSliceProps
                 ELSE data.storageProps
    IN Chain(<<
         O(data.prmgrProps, "prmgr"),
         O(data.authsecretProps, "authsecret"),
         O(data.encryptsecretProps, "encryptsecret"),
         O(data.httpcookiesecretProps, "httpcookiesecret"),
         O(data.tlsKeySecretProps, "tlsKeySecret"),
         O(data.tlsProps, "tls"),
         Ok(B("-drive", "backend", data.driveCmd, tlsref)),
         Ok(B("-chardev", "backend", data.chardevCmd, {})),
         Ok(B("-blockdev", "backend", data.storageProps, tlsref)),
         Ok(B("-blockdev", "backend", data.storageSliceProps,
              {Ref("file", data.storageProps)})),
         Ok(B("-blockdev", "backend", data.formatProps,
              {Ref("file", under)}
                \cup (IF data.backing = "" THEN {}
                      ELSE {Ref("backing", data.backing)}))) >>)

(* for (i = data->nsrcdata; i > 0; i--) *)
(* The attachment loop run from the top layer downwards *)
RECURSIVE AttachChainTopFirst(_, _, _)
AttachChainTopFirst(srcdata, qemuCaps, i) ==
    IF i = 0 THEN Ok(<<>>)
    ELSE Then(AttachChainTopFirst(srcdata, qemuCaps, i - 1),
              qemuBuildBlockStorageSourceAttachDataCommandline(srcdata[i],
                                                               qemuCaps))

RECURSIVE AttachChain(_, _, _)
AttachChain(srcdata, qemuCaps, i) ==
    IF i = 0 THEN Ok(<<>>)
    ELSE Then(qemuBuildBlockStorageSourceAttachDataCommandline(srcdata[i],
                                                               qemuCaps),
              AttachChain(srcdata, qemuCaps, i - 1))

-----------------------------------------------------------------------------
(* Disks *)

Blockdev(qemuCaps) == "QEMU_CAPS_BLOCKDEV" \in qemuCaps

qemuDiskBusIsSD(bus) == bus = "sd"

(* virDomainControllerAliasFind: the alias of the controller of a type and  *)
(* index, "" (with an error reported) when there is none or it has no alias *)
virDomainControllerAliasFind(d, type, idx) ==
    LET hits == {i \in 1..Len(d.controllers) :
                    d.controllers[i].type = type /\ d.controllers[i].idx = idx}
    IN IF hits = {} THEN ""
       ELSE d.controllers[CHOOSE i \in hits : \A j \in hits : i <= j].alias

NoVirtioOptions == [null |-> TRUE, iommu |-> "absent", ats |-> "absent",
                    packed |-> "absent"]

(* virtio->iommu, ats, packed: "absent", "on" or "off" *)
qemuBuildVirtioOptionsStr(virtio) ==
    IF virtio.null THEN ""
    ELSE (IF virtio.iommu # "absent"
          THEN ",iommu_platform=" \o virtio.iommu ELSE "")
         \o (IF virtio.ats # "absent" THEN ",ats=" \o virtio.ats ELSE "")
         \o (IF virtio.packed # "absent"
              THEN ",packed=" \o virtio.packed ELSE "")

(* qemuDomainDiskGetBackendAlias: what the frontend's drive= names.  The    *)
(* node name of the format layer is disk.nodeformat when the preparer set   *)
(* one, else the name the model's preparer generates.                       *)
qemuDomainDiskGetBackendAlias(disk, qemuCaps) ==
    IF Blockdev(qemuCaps) /\ ~qemuDiskBusIsSD(disk.bus)
    THEN IF disk.srcType = "empty" THEN ""
         ELSE IF disk.copy_on_read THEN NodeName(disk.alias, 0, "cor")
         ELSE IF disk.nodeformat # "" THEN disk.nodeformat
         ELSE NodeName(disk.alias, 1, "format")
    ELSE "drive-" \o disk.alias

(* virBufferEscape(buf, '\\', " ", "%s", str) *)
RECURSIVE EscapeSpace(_)
EscapeSpace(str) ==
    IF str = "" THEN ""
    ELSE LET c == SubSeq(str, 1, 1) IN
         (IF c = " " THEN "\\ " ELSE c) \o EscapeSpace(SubSeq(str, 2, Len(str)))

(* use: "absent", "on" or "off" *)
qemuBuildIoEventFdStr(use, qemuCaps) ==
    IF use # "absent" /\ "QEMU_CAPS_VIRTIO_IOEVENTFD" \in qemuCaps
    THEN ",ioeventfd=" \o use ELSE ""

(* error_policy, rerror_policy: "default", "stop", "report", "ignore",     *)
(* "enospace"                                                               *)
qemuBuildDiskFrontendAttributeErrorPolicy(disk) ==
    LET w0 == IF disk.error_policy # "default" THEN disk.error_policy ELSE ""
        r0 == IF disk.rerror_policy # "default" THEN disk.rerror_policy ELSE ""
        wpolicy == IF disk.error_policy = "enospace" THEN "enospc" ELSE w0
        rpolicy == IF disk.error_policy = "enospace" THEN r0
                   ELSE IF r0 = "" THEN w0 ELSE r0
    IN (IF wpolicy # "" THEN ",werror=" \o wpolicy ELSE "")
       \o (IF rpolicy # "" THEN ",rerror=" \o rpolicy ELSE "")

qemuBuildDiskFrontendAttributes(disk) ==
    (IF disk.geometry.cylinders > 0 /\ disk.geometry.heads > 0
           /\ disk.geometry.sectors > 0
     THEN ",cyls=" \o Dec(disk.geometry.cylinders)
          \o ",heads=" \o Dec(disk.geometry.heads)
          \o ",secs=" \o Dec(disk.geometry.sectors)
          \o (IF disk.geometry.trans # "default"
              THEN ",bios-chs-trans=" \o disk.geometry.trans ELSE "")
     ELSE "")
    \o (IF disk.serial # "" THEN ",serial=" \o EscapeSpace(disk.serial) ELSE "")

(* cachemode: "default", "none", "writethrough", "writeback", "directsync", *)
(* "unsafe"; the write-back flag is that of qemuDomainDiskCachemodeFlags    *)
qemuBuildDriveDevCacheStr(disk, qemuCaps) ==
    IF disk.cachemode = "default" THEN ""
    ELSE IF disk.device = "lun" THEN ""
    ELSE IF "QEMU_CAPS_DISK_WRITE_CACHE" \notin qemuCaps THEN ""
    ELSE ",write-cache="
         \o (IF disk.cachemode \in { "none", "writeback", "unsafe" }
             THEN "on" ELSE "off")

(* the switch on disk->bus: the device model and where it is plugged *)
DiskBusStr(d, disk, qemuCaps) ==
    CASE disk.bus = "ide" ->
           LET contAlias == IF d.machine = "pc" THEN "ide"
                            ELSE virDomainControllerAliasFind(d, "ide", disk.info.bus)
               busName == contAlias \o "." \o Dec(disk.info.bus)
           IN IF contAlias = ""
              THEN StrFail("VIR_ERR_INTERNAL_ERROR",
                           "Could not find ide controller")
              ELSE Str((IF disk.device = "cdrom" THEN "ide-cd" ELSE "ide-hd")
                           \o ",bus=" \o busName
                           \o ",unit=" \o Dec(disk.info.slot),
                       {Ref("bus", busName)})
      [] disk.bus = "scsi" ->
           LET contAlias == virDomainControllerAliasFind(d, "scsi", disk.info.bus)
               scsiVPDDeviceId ==
                   IF disk.device # "lun"
                      /\ "QEMU_CAPS_SCSI_DISK_DEVICE_ID" \in qemuCaps
                   THEN (IF disk.serial # "" THEN disk.serial
                         ELSE "drive-" \o disk.alias)
                   ELSE ""
           IN IF contAlias = ""
              THEN StrFail("VIR_ERR_INTERNAL_ERROR",
                           "Could not find scsi controller")
              ELSE Str((IF disk.device = "lun" THEN "scsi-block"
                        ELSE IF disk.device = "cdrom" THEN "scsi-cd"
                        ELSE "scsi-hd")
                           \o ",bus=" \o contAlias \o ".0,channel=0,scsi-id=0"
                           \o ",lun=" \o Dec(disk.info.slot)
                           \o (IF scsiVPDDeviceId # ""
                               THEN ",device_id=" \o scsiVPDDeviceId ELSE ""),
                       {Ref("bus", contAlias \o ".0")})
      [] disk.bus = "sata" ->
           LET contAlias == IF d.machine = "q35" /\ disk.info.bus = 0 THEN "ide"
                            ELSE virDomainControllerAliasFind(d, "sata", disk.info.bus)
               busName == contAlias \o "." \o Dec(disk.info.slot)
           IN IF contAlias = ""
              THEN StrFail("VIR_ERR_INTERNAL_ERROR",
                           "Could not find sata controller")
              ELSE Str((IF disk.device = "cdrom" THEN "ide-cd" ELSE "ide-hd")
                           \o ",bus=" \o busName,
                       {Ref("bus", busName)})
      [] disk.bus = "virtio" ->
           StrThen(qemuBuildVirtioDevStr(
                       IF disk.srcType = "vhostuser" THEN "vhost-user-blk"
                       ELSE "virtio-blk",
                       qemuCaps, "VIR_DOMAIN_DEVICE_DISK", disk),
             StrThen(
               Str((IF disk.iothread # 0
                    THEN ",iothread=iothread" \o Dec(disk.iothread) ELSE "")
                   \o qemuBuildIoEventFdStr(disk.ioeventfd, qemuCaps)
                   \o (IF disk.event_idx # "absent"
                          /\ "QEMU_CAPS_VIRTIO_BLK_EVENT_IDX" \in qemuCaps
                       THEN ",event_idx=" \o disk.event_idx ELSE "")
                   \o (IF "QEMU_CAPS_VIRTIO_BLK_SCSI" \in qemuCaps
                          /\ ~("QEMU_CAPS_VIRTIO_BLK_SCSI_DEFAULT_DISABLED"
                                   \in qemuCaps
                               /\ disk.device # "lun")
                       THEN ",scsi=" \o (IF disk.device = "lun" THEN "on"
                                         ELSE "off")
                       ELSE "")
                   \o (IF disk.queues # 0
                       THEN ",num-queues=" \o Dec(disk.queues) ELSE "")
                   \o qemuBuildVirtioOptionsStr(disk.virtio), {}),
               qemuBuildDeviceAddressStr(d, disk.info)))
      [] disk.bus = "usb" ->
           StrThen(Str("usb-storage", {}),
                   qemuBuildDeviceAddressStr(d, disk.info))
      [] disk.bus = "fdc" ->
           Str("floppy,unit=" \o Dec(disk.info.slot), {})
      [] OTHER ->
           StrFail("VIR_ERR_INTERNAL_ERROR",
                   "unsupported disk bus '" \o disk.bus \o "' with device setup")

(* what follows id= in the device text *)
DiskFrontendTail(disk, qemuCaps) ==
    (IF disk.device # "floppy" /\ disk.bootindex > 0
     THEN ",bootindex=" \o Dec(disk.bootindex) ELSE "")
    \o (IF "QEMU_CAPS_BLOCKIO" \in qemuCaps
        THEN (IF disk.logical_block_size > 0
              THEN ",logical_block_size=" \o Dec(disk.logical_block_size)
              ELSE "")
             \o (IF disk.physical_block_size > 0
                 THEN ",physical_block_size=" \o Dec(disk.physical_block_size)
                 ELSE "")
        ELSE "")
    \o (IF disk.wwn # ""
        THEN (IF Len(disk.wwn) >= 2 /\ SubSeq(disk.wwn, 1, 2) = "0x"
              THEN ",wwn=" \o disk.wwn ELSE ",wwn=0x" \o disk.wwn)
        ELSE "")
    \o (IF disk.rotation_rate # 0
        THEN ",rotation_rate=" \o Dec(disk.rotation_rate) ELSE "")
    \o (IF disk.vendor # ""
        THEN ",vendor=" \o virQEMUBuildBufferEscapeComma(disk.vendor) ELSE "")
    \o (IF disk.product # ""
        THEN ",product=" \o virQEMUBuildBufferEscapeComma(disk.product) ELSE "")
    \o (IF disk.bus = "usb" /\ "QEMU_CAPS_USB_STORAGE_REMOVABLE" \in qemuCaps
        THEN (IF disk.removable = "on" THEN ",removable=on"
              ELSE ",removable=off")
        ELSE "")
    \o qemuBuildDriveDevCacheStr(disk, qemuCaps)
    \o qemuBuildDiskFrontendAttributes(disk)
    \o (IF "QEMU_CAPS_STORAGE_WERROR" \in qemuCaps
        THEN qemuBuildDiskFrontendAttributeErrorPolicy(disk) ELSE "")

(* a variant whose share-rw option follows a flag the builder never reads *)
DiskDeviceStrReadsAudiodev(d, disk, qemuCaps) ==
    LET backendAlias == qemuDomainDiskGetBackendAlias(disk, qemuCaps) IN
    StrThen(DiskBusStr(d, disk, qemuCaps),
      StrThen(
        Str(IF "QEMU_CAPS_AUDIODEV" \in qemuCaps THEN ",share-rw=on" ELSE "",
            {}),
        StrThen(
            IF disk.srcType = "vhostuser"
            THEN Str(",chardev=chr-vu-" \o disk.alias,
                     {Ref("chardev", "chr-vu-" \o disk.alias)})
            ELSE IF backendAlias # ""
            THEN Str(",drive=" \o backendAlias, {Ref("drive", backendAlias)})
            ELSE Str("", {}),
            Str(",id=" \o disk.alias \o DiskFrontendTail(disk, qemuCaps),
                {}))))

qemuBuildDiskDeviceStr(d, disk, qemuCaps) ==
    LET backendAlias == qemuDomainDiskGetBackendAlias(disk, qemuCaps) IN
    StrThen(DiskBusStr(d, disk, qemuCaps),
      StrThen(
        Str(IF disk.shared /\ "QEMU_CAPS_DISK_SHARE_RW" \in qemuCaps
            THEN ",share-rw=on" ELSE "", {}),
        StrThen(
            IF disk.srcType = "vhostuser"
            THEN Str(",chardev=chr-vu-" \o disk.alias,
                     {Ref("chardev", "chr-vu-" \o disk.alias)})
            ELSE IF backendAlias # ""
            THEN Str(",drive=" \o backendAlias, {Ref("drive", backendAlias)})
            ELSE Str("", {}),
            Str(",id=" \o disk.alias \o DiskFrontendTail(disk, qemuCaps),
                {}))))

(* a variant that attaches a source both as -drive and as -blockdev nodes *)
DiskSourceBothStrategies(disk, qemuCaps) ==
    Then(AttachChain(qemuBuildStorageSourceChainAttachPrepareDrive(disk),
                     qemuCaps, 1),
         AttachChain(qemuBuildStorageSourceChainAttachPrepareBlockdev(
                         disk.alias, disk.src), qemuCaps, Len(disk.src)))

qemuBuildDiskSourceCommandLine(disk, qemuCaps) ==
    IF disk.srcType = "vhostuser"
    THEN AttachChain(qemuBuildStorageSourceChainAttachPrepareChardev(disk),
                     qemuCaps, 1)
    ELSE IF Blockdev(qemuCaps) /\ ~qemuDiskBusIsSD(disk.bus)
    THEN IF disk.srcType = "empty" THEN Ok(<<>>)
         ELSE IF disk.srcBad
         THEN Fail("VIR_ERR_INTERNAL_ERROR", "storage source props")
         ELSE Then(AttachChain(
                     qemuBuildStorageSourceChainAttachPrepareBlockdev(
                         disk.alias, disk.src),
                     qemuCaps, Len(disk.src)),
                   Ok(IF disk.copy_on_read
                      THEN << Frag("-blockdev", disk.alias, "backend",
                                   NodeName(disk.alias, 0, "cor"),
                                   {Ref("file", NodeName(disk.alias, 1, "format"))}) >>
                      ELSE <<>>))
    ELSE IF disk.srcBad
         THEN Fail("VIR_ERR_INTERNAL_ERROR", "drive string")
         ELSE AttachChain(qemuBuildStorageSourceChainAttachPrepareDrive(disk),
                          qemuCaps, 1)

qemuBuildDiskCommandLine(d, disk, qemuCaps) ==
    Then(qemuBuildDiskSourceCommandLine(disk, qemuCaps),
         IF qemuDiskBusIsSD(disk.bus) THEN Ok(<<>>)
         ELSE IF disk.bus = "fdc" /\ ~Blockdev(qemuCaps) THEN Ok(<<>>)
         ELSE LET optstr == qemuBuildDiskDeviceStr(d, disk, qemuCaps) IN
              IF optstr.rc < 0 THEN Res(-1, optstr.err, << Plain("-device") >>)
              ELSE Ok(<< [Frag("-device", disk.alias, "device", disk.alias,
                               optstr.refs) EXCEPT !.text = optstr.text] >>))

(* newer Q35 machine types require an explicit FDC controller *)
qemuDomainNeedsFDC(d) == d.machine = "q35"

qemuBuildFloppyCommandLineControllerOptions(d, qemuCaps) ==
    LET floppies == SelectSeq(d.disks, LAMBDA disk : disk.bus = "fdc")
        backend(disk) == IF Blockdev(qemuCaps) THEN ""
                         ELSE qemuDomainDiskGetBackendAlias(disk, qemuCaps)
        refs == {Ref("driveA", backend(floppies[i])) : i \in 1..Len(floppies)}
                    \ {Ref("driveA", "")}
    IN IF ~qemuDomainNeedsFDC(d)
       THEN Ok(Flatten([i \in 1..Len(floppies) |->
                  IF backend(floppies[i]) = "" THEN <<>>
                  ELSE << Frag("-global", "", "fdc", "",
                               {Ref("driveA", backend(floppies[i]))}) >>]))
       ELSE IF floppies # <<>>
       THEN Ok(<< Frag("-device", "", "fdc", "", refs) >>)
       ELSE Ok(<<>>)

qemuBuildDisksCommandLine(d, qemuCaps) ==
    LET blockdev == Blockdev(qemuCaps)
        fdc == qemuBuildFloppyCommandLineControllerOptions(d, qemuCaps)
    IN Chain(<< IF blockdev THEN fdc ELSE Ok(<<>>) >>
             \o [i \in 1..Len(d.disks) |->
                    IF d.disks[i].transientShared THEN Ok(<<>>)
                    ELSE qemuBuildDiskCommandLine(d, d.disks[i], qemuCaps)]
             \o << IF blockdev THEN Ok(<<>>) ELSE fdc >>)

-----------------------------------------------------------------------------
(* Character device backends.  A builder of -chardev text appends to the    *)
(* command while it formats (objects, -add-fd, descriptors): its result is  *)
(* the effect on the command (res) and what the text it returns mentions.   *)
(* h names the host operation that fails in this call ("none": none does).  *)

(* labels: the calls of qemuSecuritySetSocketLabel that succeeded ("set")   *)
(* and of qemuSecurityClearSocketLabel ("clear") the builder made, in order *)
ChrRes(res, id, refs, fdsets) ==
    [res |-> res, id |-> id, refs |-> refs, fdsets |-> fdsets, labels |-> <<>>]

WithFds(res, opened, closed, passed) ==
    [res EXCEPT !.opened = @ \cup opened, !.closed = @ \cup closed,
                !.passed = @ \o passed]

AddFd(fd) == [Plain("-add-fd") EXCEPT !.addfd = fd]

(* the file is opened here and handed over as /dev/fdset/N, or named by path *)
qemuBuildChrChardevFileStr(logManager, qemuCaps, fd, h) ==
    IF logManager \/ "QEMU_CAPS_CHARDEV_FD_PASS_COMMANDLINE" \in qemuCaps
    THEN IF h = "open"
         THEN ChrRes(Fail("VIR_ERR_SYSTEM_ERROR", "open log file"), "", {}, {})
         ELSE IF ~logManager /\ h = "label"
         THEN ChrRes(WithFds(Fail("VIR_ERR_INTERNAL_ERROR", "image fd label"),
                             {fd}, {fd}, <<>>), "", {}, {})
         ELSE ChrRes(WithFds(Ok(<< AddFd(fd) >>), {fd}, {}, << fd >>),
                     "", {}, {fd})
    ELSE ChrRes(Ok(<<>>), "", {}, {})

ChrThen(a, b) ==
    IF a.res.rc < 0 THEN a
    ELSE [ChrRes(Then(a.res, b.res), a.id, a.refs \cup b.refs,
                 a.fdsets \cup b.fdsets)
             EXCEPT !.labels = a.labels \o b.labels]

(* a variant of qemuOpenChrChardevUNIXSocket without the error label *)
OpenChrChardevUNIXSocketNoClose(fd, h) ==
    IF h \in { "socket", "socket-clearlabel" }
    THEN [fd |-> "-1",
          res |-> Fail("VIR_ERR_SYSTEM_ERROR", "Unable to create UNIX socket")]
    ELSE IF h \in { "bind", "bind-clearlabel" }
    THEN [fd |-> "-1",
          res |-> WithFds(Fail("VIR_ERR_SYSTEM_ERROR",
                               "Unable to bind to UNIX socket path"),
                          {fd}, {}, <<>>)]
    ELSE [fd |-> fd, res |-> WithFds(Ok(<<>>), {fd}, {}, <<>>)]

(* qemuOpenChrChardevUNIXSocket: the descriptor, or -1 after a failure of   *)
(* socket() or of a later call (bind stands for them), which closes it      *)
qemuOpenChrChardevUNIXSocket(fd, h) ==
    IF h \in { "socket", "socket-clearlabel" }
    THEN [fd |-> "-1",
          res |-> Fail("VIR_ERR_SYSTEM_ERROR", "Unable to create UNIX socket")]
    ELSE IF h \in { "bind", "bind-clearlabel" }
    THEN [fd |-> "-1",
          res |-> WithFds(Fail("VIR_ERR_SYSTEM_ERROR",
                               "Unable to bind to UNIX socket path"),
                          {fd}, {fd}, <<>>)]
    ELSE [fd |-> fd, res |-> WithFds(Ok(<<>>), {fd}, {}, <<>>)]

ChrBackend(logManager, dev, alias, qemuCaps, cdevflags, h) ==
    LET charAlias == "char" \o alias IN
    CASE dev.type \in { "null", "vc", "pty", "dev", "pipe", "stdio", "udp",
                        "spicevmc", "spiceport" } ->
           ChrRes(Ok(<<>>), charAlias, {}, {})
      [] dev.type = "file" ->
           ChrThen(ChrRes(Ok(<<>>), charAlias, {}, {}),
                   qemuBuildChrChardevFileStr(
                       logManager /\ "FILE_LOGD" \in cdevflags,
                       qemuCaps, "file-" \o alias, h))
      [] dev.type = "tcp" ->
           IF dev.haveTLS
           THEN LET objalias == "obj" \o charAlias \o "_tls0" IN
                ChrRes(Then(
                         qemuBuildObjectCommandline(
                             IF dev.secinfo
                             THEN Props("secret", charAlias \o "-secret0", {})
                             ELSE NullProps, qemuCaps, alias, "secret", 0),
                         IF h = "tls"
                         THEN Fail("VIR_ERR_INTERNAL_ERROR", "tls x509 props")
                         ELSE qemuBuildObjectCommandline(
                                  Props("tls-creds-x509", objalias, {}),
                                  qemuCaps, alias, "tls", 0)),
                       charAlias, {Ref("tls-creds", objalias)}, {})
           ELSE ChrRes(Ok(<<>>), charAlias, {}, {})
      [] dev.type = "unix" ->
           IF dev.listen /\ "UNIX_FD_PASS" \in cdevflags
              /\ "QEMU_CAPS_CHARDEV_FD_PASS_COMMANDLINE" \in qemuCaps
           THEN LET sock == qemuOpenChrChardevUNIXSocket("sock-" \o alias, h)
                    clearFails == h \in { "clearlabel", "socket-clearlabel",
                                          "bind-clearlabel" }
                IN
                IF h = "setlabel"
                THEN ChrRes(Fail("VIR_ERR_INTERNAL_ERROR", "set socket label"),
                            "", {}, {})
                ELSE [(IF clearFails
                       THEN ChrRes(WithFds([sock.res EXCEPT
                                               !.rc = -1,
                                               !.err = Err("VIR_ERR_INTERNAL_ERROR",
                                                           "clear socket label")],
                                           {}, { sock.fd } \ { "-1" }, <<>>),
                                   "", {}, {})
                       ELSE IF sock.fd = "-1"
                       THEN ChrRes(sock.res, "", {}, {})
                       ELSE ChrRes(WithFds(sock.res, {}, {}, << sock.fd >>),
                                   charAlias, {}, {}))
                         EXCEPT !.labels = << "set", "clear" >>]
           ELSE ChrRes(Ok(<<>>), charAlias, {}, {})
      [] OTHER ->
           ChrRes(Fail("VIR_ERR_CONFIG_UNSUPPORTED",
                       "unsupported chardev '" \o dev.type \o "'"), "", {}, {})

qemuBuildChrChardevStr(logManager, dev, alias, qemuCaps, cdevflags, h) ==
    ChrThen(ChrBackend(logManager, dev, alias, qemuCaps, cdevflags, h),
            IF dev.logfile
            THEN qemuBuildChrChardevFileStr(logManager, qemuCaps,
                                            "logfile-" \o alias,
                                            IF h = "logopen" THEN "open"
                                            ELSE IF h = "loglabel" THEN "label"
                                            ELSE "none")
            ELSE ChrRes(Ok(<<>>), "", {}, {}))

(* the caller's virCommandAddArgList(cmd, "-chardev", chardev, NULL) *)
ChardevArg(chr, dev) ==
    Then(chr.res,
         Ok(<< [Frag("-chardev", dev, "chardev", chr.id, chr.refs)
                   EXCEPT !.fdsets = chr.fdsets] >>))

HostFailures ==
    { "none", "open", "label", "logopen", "loglabel", "tls", "setlabel",
      "clearlabel", "socket", "bind", "socket-clearlabel", "bind-clearlabel" }

ChrSource(type) ==
    [type |-> type, listen |-> FALSE, haveTLS |-> FALSE, secinfo |-> FALSE,
     logfile |-> FALSE]

CdevFlags(chardevStdioLogd) ==
    { "TCP_NOWAIT", "UNIX_FD_PASS" }
        \cup (IF chardevStdioLogd THEN { "FILE_LOGD" } ELSE {})

(* qemuBuildSerialCommandLine, for serial devices that are not platform devices *)
SerialOne(serial, a, qemuCaps, h) ==
    Then(ChardevArg(qemuBuildChrChardevStr(a.logManager, serial.source,
                                           serial.alias, qemuCaps,
                                           CdevFlags(a.chardevStdioLogd), h),
                    serial.alias),
         Ok(<< Frag("-device", serial.alias, "device", serial.alias,
                    {Ref("chardev", "char" \o serial.alias)}) >>))

qemuBuildSerialCommandLine(d, a, qemuCaps, h) ==
    Chain([i \in 1..Len(d.chardevs) |->
              SerialOne(d.chardevs[i], a, qemuCaps, h)])

-----------------------------------------------------------------------------
(* Network interfaces.  h names the step of qemuBuildInterfaceCommandLine   *)
(* that fails for this interface, h.k how far the failing step got.         *)

TapTypes == { "network", "bridge", "direct", "ethernet" }

FdNames(prefix, alias, n) == [i \in 1..n |-> prefix \o alias \o "-" \o Dec(i)]

NetQueues(net) == IF net.queues = 0 THEN 1 ELSE net.queues

(* the cleanup label: descriptors still held in tapfd[], vhostfd[] and      *)
(* vdpafd are closed, the first two only when the function fails            *)
(* a variant of the cleanup label that forgets the tap descriptors *)
InterfaceCleanupKeepsTap(rc, tapfd, vhostfd, vdpafd) ==
    (IF rc < 0 THEN vhostfd ELSE {}) \cup vdpafd

InterfaceCleanup(rc, tapfd, vhostfd, vdpafd) ==
    (IF rc < 0 THEN vhostfd \cup tapfd ELSE {}) \cup vdpafd

(* the cleanup label: "if (ret < 0) virDomainConfNWFilterTeardown(net)" *)
InterfaceTeardown(rc, net) == IF rc < 0 THEN << net.alias >> ELSE <<>>

qemuBuildNicDevStr(d, net, bootindex, qemuCaps) ==
    StrThen(IF net.model \in { "virtio", "virtio-transitional",
                               "virtio-non-transitional" }
            THEN qemuBuildVirtioDevStr("virtio-net", qemuCaps,
                                       "VIR_DOMAIN_DEVICE_NET", net)
            ELSE Str(net.model, {}),
        StrThen(Str(",netdev=host" \o net.alias \o ",id=" \o net.alias,
                    {Ref("netdev", "host" \o net.alias)}),
            StrThen(qemuBuildDeviceAddressStr(d, net.info),
                    Str(IF bootindex # 0
                        THEN ",bootindex=" \o Dec(bootindex) ELSE "", {}))))

(* the body of qemuBuildInterfaceCommandLine, given the chardev of a        *)
(* vhost-user interface (chr) and the text of the device (nic)              *)
InterfaceCommandLineWith(net, a, h, chr, nic) ==
    LET size == NetQueues(net)
        isTap == net.type \in TapTypes
        taps == IF isTap THEN FdNames("tap-", net.alias, size) ELSE <<>>
        vhosts == IF isTap /\ ~a.standalone /\ h.vhost
                  THEN FdNames("vhost-", net.alias, size) ELSE <<>>
        vdpa == IF net.type = "vdpa" THEN { "vdpa-" \o net.alias } ELSE {}
        ifname == IF net.type = "vhostuser" /\ chr.res.rc = 0
                     /\ h.step \notin { "validate", "ifname" } /\ h.ovs
                  THEN "vhost-user-" \o net.alias ELSE net.ifname
        (* a failure at the cleanup label with these descriptors held *)
        Cleanup(e, res, opened, tapfd, vhostfd, vdpafd) ==
            WithFds([res EXCEPT !.rc = -1, !.err = e],
                    opened, InterfaceCleanup(-1, tapfd, vhostfd, vdpafd), <<>>)
        E(msg) == Err("VIR_ERR_INTERNAL_ERROR", msg)
        k == IF h.k < size THEN h.k ELSE size - 1
        held == Range(taps) \cup Range(vhosts) \cup vdpa
        passedAll ==
            WithFds(chr.res, held, {},
                    taps \o vhosts \o (IF vdpa = {} THEN <<>>
                                       ELSE << "vdpa-" \o net.alias >>))
        fragsFd == IF vdpa = {} THEN <<>>
                   ELSE << AddFd("vdpa-" \o net.alias) >>
        fragChr == IF net.type = "vhostuser"
                   THEN << [Frag("-chardev", net.alias, "chardev", chr.id,
                                 chr.refs) EXCEPT !.fdsets = chr.fdsets] >>
                   ELSE <<>>
        fragNetdev ==
            << [Frag("-netdev", net.alias, "netdev", "host" \o net.alias,
                     IF net.type = "vhostuser"
                     THEN {Ref("chardev", chr.id)} ELSE {})
                   EXCEPT !.fdsets = vdpa] >>
        res ==
          IF h.step = "validate"
          THEN [Fail("VIR_ERR_CONFIG_UNSUPPORTED", "net")
                   EXCEPT !.failed = { "qemuDomainValidateActualNetDef" }]
          ELSE IF net.type = "hostdev" THEN Ok(<<>>)
          ELSE IF isTap /\ h.step = "connect"
          THEN Cleanup(E("tap connect"), Ok(<<>>),
                       {taps[i] : i \in 1..k}, {taps[i] : i \in 1..k}, {}, {})
          ELSE IF chr.res.rc < 0 THEN chr.res
          ELSE IF net.type = "vhostuser" /\ h.step = "ifname"
          THEN Cleanup(E("vhostuser ifname"), chr.res, {}, {}, {}, {})
          ELSE IF net.type = "vdpa" /\ h.step = "connect"
          THEN Cleanup(E("vdpa connect"), Ok(<<>>), {}, {}, {}, {})
          ELSE IF h.step = "host"
          THEN Cleanup(E("bandwidth or MTU"), chr.res,
                       Range(taps) \cup vdpa, Range(taps), {}, vdpa)
          ELSE IF isTap /\ ~a.standalone /\ h.step = "vhostnet"
          THEN Cleanup(E("vhost-net"), Ok(<<>>),
                       Range(taps), Range(taps), {}, {})
          ELSE IF isTap /\ h.step = "label"
          THEN WithFds(Cleanup(E("tap fd label"), Ok(<<>>), held,
                               {taps[i] : i \in (k + 1)..size},
                               Range(vhosts), {}),
                       {}, {}, SubSeq(taps, 1, k))
          ELSE IF h.step = "hostnet"
          THEN Cleanup(E("host net props"),
                       Then(passedAll, Ok(fragsFd \o fragChr)), {}, {}, {}, {})
          ELSE IF nic.rc < 0
          THEN Cleanup(nic.err,
                       Then(passedAll, Ok(fragsFd \o fragChr \o fragNetdev)),
                       {}, {}, {}, {})
          ELSE Then(WithFds(passedAll, {},
                            InterfaceCleanup(0, {}, {}, {}), <<>>),
                    Ok(fragsFd \o fragChr \o fragNetdev
                       \o << [Frag("-device", net.alias, "device", net.alias,
                                   nic.refs) EXCEPT !.text = nic.text] >>))
    IN [res |-> res, net |-> [net EXCEPT !.ifname = ifname],
        (* a failed validation returns before the cleanup label *)
        torn |-> IF h.step = "validate" THEN <<>>
                 ELSE InterfaceTeardown(res.rc, net)]

qemuBuildInterfaceCommandLine(d, net, bootindex, a, qemuCaps, h) ==
    InterfaceCommandLineWith(
        net, a, h,
        IF net.type = "vhostuser"
        THEN (IF net.source.type = "unix"
              THEN qemuBuildChrChardevStr(a.logManager, net.source,
                                          net.alias, qemuCaps, {}, h.chr)
              ELSE ChrRes(Fail("VIR_ERR_INTERNAL_ERROR",
                               "vhost-user type not supported"),
                          "", {}, {}))
        ELSE ChrRes(Ok(<<>>), "", {}, {}),
        qemuBuildNicDevStr(d, net,
                           IF bootindex = 0 THEN net.bootIndex ELSE bootindex,
                           qemuCaps))

NetOutcome(step, k, vhost, ovs, chr) ==
    [step |-> step, k |-> k, vhost |-> vhost, ovs |-> ovs, chr |-> chr]

(* "convert <boot dev='network'/> to bootindex": the position of the      *)
(* network in the boot order, 0 when it is not listed                       *)
RECURSIVE BootNet(_, _)
BootNet(bootDevs, i) ==
    IF i > Len(bootDevs) THEN 0
    ELSE IF bootDevs[i] = "network" THEN i
    ELSE BootNet(bootDevs, i + 1)

(* qemuBuildNetCommandLine: the interfaces in order, stopping at the first  *)
(* that fails; hs[i] is what the host does to interface i.  Only the first  *)
(* interface is handed bootNet; an interface of type hostdev stores it in   *)
(* *bootHostdevNet.  The error label tears down the filters of the          *)
(* interfaces built before the failing one.                                 *)
(* a variant of the error label that stops one interface early *)
NetTeardownSkipsLast(d, last_good_net) ==
    [j \in 1..(last_good_net - 1) |-> d.nets[j].alias]

(* the error label: virDomainConfNWFilterTeardown(def->nets[i]) for every   *)
(* i <= last_good_net                                                       *)
NetTeardown(d, last_good_net) ==
    [j \in 1..last_good_net |-> d.nets[j].alias]

NetFailed(alias) == "qemuBuildInterfaceCommandLine-" \o alias

RECURSIVE NetLoop(_, _, _, _, _, _)
NetLoop(d, a, qemuCaps, hs, i, acc) ==
    IF i > Len(d.nets) THEN acc
    ELSE LET r == qemuBuildInterfaceCommandLine(d, d.nets[i], acc.bootNet, a,
                                                qemuCaps, hs[i])
         IN IF r.res.rc < 0
            THEN [acc EXCEPT !.res = [Then(acc.res, r.res) EXCEPT
                                         !.failed = @ \cup { NetFailed(d.nets[i].alias) }],
                             !.nets[i] = r.net,
                             !.torn = r.torn \o NetTeardown(d, i - 1)]
            ELSE NetLoop(d, a, qemuCaps, hs, i + 1,
                         [res |-> Then(acc.res, r.res),
                          nets |-> [acc.nets EXCEPT ![i] = r.net],
                          bootNet |-> 0,
                          boot |-> IF d.nets[i].type = "hostdev" /\ acc.boot = 0
                                   THEN acc.bootNet ELSE acc.boot,
                          torn |-> <<>>])

qemuBuildNetCommandLine(d, a, qemuCaps, boot, hs) ==
    NetLoop(d, a, qemuCaps, hs, 1,
            [res |-> Ok(<<>>), nets |-> d.nets,
             bootNet |-> BootNet(d.bootDevs, 1), boot |-> boot, torn |-> <<>>])

-----------------------------------------------------------------------------
(* TPM devices *)

qemuBuildTPMDevStr(d, tpm) ==
    StrThen(Str(tpm.model \o ",tpmdev=tpm-" \o tpm.alias \o ",id=" \o tpm.alias,
                {Ref("tpmdev", "tpm-" \o tpm.alias)}),
            qemuBuildDeviceAddressStr(d, tpm.info))

(* qemuBuildTPMOpenBackendFDs: both descriptors or none *)
qemuBuildTPMOpenBackendFDs(tpmfd, cancelfd, h) ==
    IF h = "open" THEN Fail("VIR_ERR_SYSTEM_ERROR", "Could not open TPM device")
    ELSE IF h = "cancel"
    THEN WithFds(Fail("VIR_ERR_SYSTEM_ERROR",
                      "Could not open TPM device's cancel path"),
                 {tpmfd}, {tpmfd}, <<>>)
    ELSE WithFds(Ok(<<>>), {tpmfd, cancelfd}, {}, <<>>)

(* the text of -tpmdev; the descriptors are handed to the command here *)
qemuBuildTPMBackendStr(tpm, h) ==
    LET tpmfd == "tpm-" \o tpm.alias
        cancelfd == "tpmcancel-" \o tpm.alias
    IN CASE tpm.type = "passthrough" ->
              ChrRes(WithFds(qemuBuildTPMOpenBackendFDs(tpmfd, cancelfd, h),
                             {}, {},
                             IF h \in { "open", "cancel" } THEN <<>>
                             ELSE << tpmfd, cancelfd >>),
                     "tpm-" \o tpm.alias, {}, {tpmfd, cancelfd})
         [] tpm.type = "emulator" ->
              ChrRes(Ok(<<>>), "tpm-" \o tpm.alias,
                     {Ref("chardev", "chrtpm")}, {})
         [] OTHER ->
              ChrRes(Res(-1, NoErr, <<>>), "", {}, {})

qemuBuildTPMCommandLine(d, tpm, h) ==
    LET be == qemuBuildTPMBackendStr(tpm, h)
        optstr == qemuBuildTPMDevStr(d, tpm)
        passthrough == tpm.type = "passthrough"
    IN Chain(<<
         be.res,
         Ok(<< [Frag("-tpmdev", tpm.alias, "tpmdev", be.id, be.refs)
                   EXCEPT !.fdsets = be.fdsets] >>),
         Ok(IF tpm.type = "emulator"
            THEN << Frag("-chardev", tpm.alias, "chardev", "chrtpm", {}) >>
            ELSE <<>>),
         Ok(IF passthrough
            THEN << AddFd("tpm-" \o tpm.alias),
                    AddFd("tpmcancel-" \o tpm.alias) >>
            ELSE <<>>),
         IF optstr.rc < 0 THEN Res(-1, optstr.err, <<>>)
         ELSE Ok(<< [Frag("-device", tpm.alias, "device", tpm.alias,
                          optstr.refs) EXCEPT !.text = optstr.text] >>) >>)

qemuBuildTPMProxyCommandLine(tpm) ==
    Ok(<< Frag("-device", tpm.alias, "device", tpm.alias, {}) >>)

qemuBuildTPMsCommandLine(d, h) ==
    Chain([i \in 1..Len(d.tpms) |->
              IF d.tpms[i].model = "spapr-tpm-proxy"
              THEN qemuBuildTPMProxyCommandLine(d.tpms[i])
              ELSE qemuBuildTPMCommandLine(d, d.tpms[i], h)])

-----------------------------------------------------------------------------
(* Shared memory devices *)

qemuBuildShmemDevStr(d, shmem) ==
    StrThen(Str(shmem.model \o ",id=" \o shmem.alias, {}),
        StrThen(IF shmem.server
                THEN Str(",chardev=char" \o shmem.alias,
                         {Ref("chardev", "char" \o shmem.alias)})
                ELSE Str(",memdev=shmmem-" \o shmem.alias,
                         {Ref("memdev", "shmmem-" \o shmem.alias)}),
                qemuBuildDeviceAddressStr(d, shmem.info)))

qemuBuildShmemDevLegacyStr(d, shmem) ==
    StrThen(Str("ivshmem,id=" \o shmem.alias, {}),
        StrThen(IF shmem.server
                THEN Str(",chardev=char" \o shmem.alias,
                         {Ref("chardev", "char" \o shmem.alias)})
                ELSE Str(",shm=" \o shmem.alias, {}),
                qemuBuildDeviceAddressStr(d, shmem.info)))

qemuBuildShmemBackendMemProps(shmem) ==
    PropsAdd(Props("memory-backend-file", "shmmem-" \o shmem.alias, {}),
             << Pair("mem-path", JStr("/dev/shm/" \o shmem.name)),
                Pair("size", JNum(U64(shmem.size))),
                Pair("share", JBool(TRUE)) >>)

qemuBuildShmemCommandLine(d, shmem, a, qemuCaps, h) ==
    LET devstr == IF shmem.model = "ivshmem"
                  THEN qemuBuildShmemDevLegacyStr(d, shmem)
                  ELSE qemuBuildShmemDevStr(d, shmem)
    IN
    IF shmem.size # 0 /\ ~shmem.sizeOk
    THEN Fail("VIR_ERR_XML_ERROR", "shmem size")
    ELSE IF shmem.info.type # "pci"
    THEN Fail("VIR_ERR_CONFIG_UNSUPPORTED",
              "only 'pci' addresses are supported for the shared memory device")
    ELSE Chain(<<
           IF shmem.model = "ivshmem-plain"
           THEN qemuBuildObjectCommandline(
                    qemuBuildShmemBackendMemProps(shmem),
                    qemuCaps, shmem.alias, "memdev", 0)
           ELSE Ok(<<>>),
           IF devstr.rc < 0 THEN Res(-1, devstr.err, <<>>)
           ELSE Ok(<< [Frag("-device", shmem.alias, "device", shmem.alias,
                            devstr.refs) EXCEPT !.text = devstr.text] >>),
           IF shmem.server
           THEN ChardevArg(
                    qemuBuildChrChardevStr(a.logManager, shmem.chr, shmem.alias,
                                           qemuCaps,
                                           CdevFlags(a.chardevStdioLogd), h),
                    shmem.alias)
           ELSE Ok(<<>>) >>)

-----------------------------------------------------------------------------
(* Host devices *)

qemuBuildSCSIVHostHostdevDevStr(d, hostdev, qemuCaps) ==
    StrThen(qemuBuildVirtioDevStr("vhost-scsi", qemuCaps,
                                  "VIR_DOMAIN_DEVICE_HOSTDEV", hostdev),
        StrThen(Str(",vhostfd=vhostscsi-" \o hostdev.alias
                        \o ",id=" \o hostdev.alias, {}),
                qemuBuildDeviceAddressStr(d, hostdev.info)))

(* the backend is VFIO; bootIndex is used iff the device has none of its own *)
qemuBuildPCIHostdevDevStr(d, dev, bootIndex, qemuCaps) ==
    LET boot == IF dev.bootIndex # 0 THEN dev.bootIndex ELSE bootIndex
    IN StrThen(Str("vfio-pci,id=" \o dev.alias
                       \o (IF boot # 0 THEN ",bootindex=" \o Dec(boot) ELSE ""),
                   {}),
               qemuBuildDeviceAddressStr(d, dev.info))

HostdevOne(d, hostdev, bootIndex, qemuCaps, h) ==
    LET DevArg(str) ==
            IF str.rc < 0 THEN Res(-1, str.err, << Plain("-device") >>)
            ELSE Ok(<< [Frag("-device", hostdev.alias, "device", hostdev.alias,
                             str.refs) EXCEPT !.text = str.text] >>)
    IN CASE hostdev.sub = "scsi_host" ->
              IF h = "open"
              THEN Fail("VIR_ERR_SYSTEM_ERROR", "Failed to open /dev/vhost-scsi")
              ELSE Then(WithFds(Ok(<<>>), {"vhostscsi-" \o hostdev.alias}, {},
                                << "vhostscsi-" \o hostdev.alias >>),
                        DevArg(qemuBuildSCSIVHostHostdevDevStr(d, hostdev,
                                                               qemuCaps)))
         [] hostdev.sub = "pci" ->
              IF hostdev.info.type = "unassigned" THEN Ok(<<>>)
              ELSE DevArg(qemuBuildPCIHostdevDevStr(d, hostdev, bootIndex,
                                                    qemuCaps))
         [] hostdev.sub = "usb" ->
              DevArg(StrThen(Str("usb-host,id=" \o hostdev.alias, {}),
                             qemuBuildDeviceAddressStr(d, hostdev.info)))
         [] OTHER -> Ok(<<>>)

(* qemuBuildHostdevCommandLine: a PCI device that backs an interface and    *)
(* has no boot index of its own takes *bootHostdevNet and resets it, before *)
(* the test that skips a device with an unassigned address                  *)
RECURSIVE HostdevLoop(_, _, _, _, _)
HostdevLoop(d, qemuCaps, h, i, acc) ==
    IF i > Len(d.hostdevs) \/ acc.res.rc < 0 THEN acc
    ELSE LET hostdev == d.hostdevs[i]
             takes == hostdev.sub = "pci" /\ hostdev.parentnet # ""
                          /\ hostdev.bootIndex = 0
         IN HostdevLoop(d, qemuCaps, h, i + 1,
                [res |-> Then(acc.res,
                              HostdevOne(d, hostdev,
                                         IF takes THEN acc.boot
                                         ELSE hostdev.bootIndex,
                                         qemuCaps, h)),
                 boot |-> IF takes THEN 0 ELSE acc.boot])

qemuBuildHostdevCommandLine(d, qemuCaps, boot, h) ==
    HostdevLoop(d, qemuCaps, h, 1, [res |-> Ok(<<>>), boot |-> boot])

-----------------------------------------------------------------------------
(* The clock.  qemuBuildClockArgStr writes the definition: a variable       *)
(* offset with basis localtime is converted to an offset from UTC, and the  *)
(* adjustment in use is saved in adjustment0.  tz is the outcome of         *)
(* virTimeLocalOffsetFromUTC: the local offset, or a failure.               *)

TzOutcomes == { [ok |-> FALSE, localOffset |-> 0],
                [ok |-> TRUE, localOffset |-> 0],
                [ok |-> TRUE, localOffset |-> 3600] }

(* a variant that adds the local offset on every call for a variable clock, *)
(* whatever the basis                                                       *)
ClockArgStrAddsOffsetAgain(clock, tz) ==
    LET c1 == IF clock.offset = "variable" /\ tz.ok
              THEN [clock EXCEPT !.adjustment = @ + tz.localOffset,
                                 !.basis = "utc"]
              ELSE clock
        c2 == IF clock.offset = "variable"
              THEN [c1 EXCEPT !.adjustment0 = c1.adjustment] ELSE c1
    IN [str |-> IF clock.offset = "utc" THEN Str("base=utc", {})
                ELSE IF clock.offset = "variable"
                THEN Str("base=now" \o SDec(c2.adjustment), {})
                ELSE Str("base=localtime", {}),
        clock |-> c2]

(* a variant that also rewrites the offset of the clock *)
ClockArgStrRewritesOffset(clock, tz) ==
    [str |-> Str("base=utc", {}), clock |-> [clock EXCEPT !.offset = "utc"]]

(* a variant that converts a localtime basis without recording it: the     *)
(* text is that of the converted adjustment, the definition keeps its own   *)
ClockArgStrForgetsConversion(clock, tz) ==
    LET conv == clock.offset = "variable" /\ clock.basis = "localtime"
        adj == IF conv /\ tz.ok THEN clock.adjustment + tz.localOffset
               ELSE clock.adjustment
    IN [str |-> IF clock.offset = "utc" THEN Str("base=utc", {})
                ELSE IF clock.offset \in { "localtime", "timezone" }
                THEN Str("base=localtime", {})
                ELSE IF clock.offset = "variable"
                THEN IF conv /\ ~tz.ok
                     THEN StrFail("VIR_ERR_SYSTEM_ERROR",
                                  "local offset from UTC")
                     ELSE Str("base=now" \o SDec(adj), {})
                ELSE StrFail("VIR_ERR_CONFIG_UNSUPPORTED",
                             "unsupported clock offset '" \o clock.offset
                                 \o "'"),
        clock |-> clock]

qemuBuildClockArgStr(clock, tz) ==
    LET conv == clock.offset = "variable" /\ clock.basis = "localtime"
        c1 == IF conv /\ tz.ok
              THEN [clock EXCEPT !.adjustment = @ + tz.localOffset,
                                 !.basis = "utc"]
              ELSE clock
        c2 == IF clock.offset = "variable" /\ (~conv \/ tz.ok)
              THEN [c1 EXCEPT !.adjustment0 = c1.adjustment]
              ELSE c1
        str == IF clock.offset = "utc" THEN Str("base=utc", {})
               ELSE IF clock.offset \in { "localtime", "timezone" }
               THEN Str("base=localtime", {})
               ELSE IF clock.offset = "variable"
               THEN IF conv /\ ~tz.ok
                    THEN StrFail("VIR_ERR_SYSTEM_ERROR", "local offset from UTC")
                    ELSE Str("base=now" \o SDec(c2.adjustment), {})
               ELSE StrFail("VIR_ERR_CONFIG_UNSUPPORTED",
                            "unsupported clock offset '" \o clock.offset \o "'")
    IN [str |-> IF str.rc = 0 /\ clock.rtc \in { "track-boot", "merge" }
                THEN [rc |-> -1, err |-> NoErr, text |-> "", refs |-> {}]
                ELSE str,
        clock |-> c2]

qemuBuildClockCommandLine(d, tz) ==
    LET r == qemuBuildClockArgStr(d.clock, tz) IN
    [res |-> IF r.str.rc < 0 THEN Res(-1, r.str.err, << Plain("-rtc") >>)
             ELSE IF d.clock.timer \in { "platform", "pit-merge" }
             THEN Res(-1, NoErr, << [Plain("-rtc") EXCEPT !.text = r.str.text] >>)
             ELSE Ok(<< [Plain("-rtc") EXCEPT !.text = r.str.text] >>
                     \o (IF d.clock.timer = "hpet-off"
                         THEN << Plain("-no-hpet") >> ELSE <<>>)),
     clock |-> r.clock]

-----------------------------------------------------------------------------
(* Memory backends.  mem.size is the size in KiB, an unsigned long long     *)
(* whose bits above 2^32 are mem.sizeHigh.  d.mem.hugepages is the <page/> element without a       *)
(* nodemask: "none", "default" (size 0: the host's default huge page),      *)
(* "system" (the size of a regular page) or "huge".  cfg.nhugetlbfs tells   *)
(* whether a hugetlbfs mount is configured.                                 *)

NoMem ==
    [size |-> 0, sizeHigh |-> 0, targetNode |-> -1, pagesize |-> "none",
     nvdimmPath |-> FALSE, access |-> "default", discard |-> "absent",
     alignsize |-> 0, nvdimmPmem |-> FALSE, alias |-> ""]

MemBackendRes(rc, e, props) == [rc |-> rc, err |-> e, props |-> props]

virDomainNumaGetNodeCount(d) == Len(d.cells)

qemuBuildMemoryBackendProps(alias, cfg, qemuCaps, d, mem, force, systemMemory) ==
    LET inNode == mem.targetNode >= 0
                  /\ mem.targetNode < virDomainNumaGetNodeCount(d)
        nodeSpecified == inNode /\ d.cells[mem.targetNode + 1].tuned
        access0 == IF mem.access = "default" /\ inNode
                   THEN d.cells[mem.targetNode + 1].access ELSE mem.access
        memAccess == IF access0 = "default" THEN d.mem.access ELSE access0
        discard0 == IF mem.discard = "absent" /\ inNode
                    THEN d.cells[mem.targetNode + 1].discard ELSE mem.discard
        discard == IF discard0 = "absent" THEN d.mem.discard ELSE discard0
        page0 == IF mem.pagesize = "none" THEN d.mem.hugepages ELSE mem.pagesize
        pagesize == IF page0 = "system" THEN "none" ELSE page0
        useHugepage == pagesize # "none"
        needHugepage == mem.pagesize \notin { "none", "system" }
        backendType ==
            IF ~mem.nvdimmPath /\ d.mem.source = "memfd"
            THEN "memory-backend-memfd"
            ELSE IF useHugepage \/ mem.nvdimmPath \/ memAccess # "default"
                    \/ d.mem.source = "file"
            THEN "memory-backend-file"
            ELSE "memory-backend-ram"
        E(code, msg) == MemBackendRes(-1, Err(code, msg), NullProps)
        prealloc == \/ d.mem.allocation = "immediate"
                    \/ (useHugepage /\ backendType # "memory-backend-ram")
                    \/ (mem.nvdimmPath /\ ~mem.nvdimmPmem)
        share == IF memAccess \in { "shared", "private" }
                    /\ backendType # "memory-backend-ram"
                 THEN << Pair("share", JBool(memAccess = "shared")) >>
                 ELSE <<>>
        props ==
            PropsAdd(Props(backendType, alias, {}),
                (IF backendType = "memory-backend-memfd" /\ useHugepage
                 THEN << Pair("hugetlb", JBool(TRUE)) >> ELSE <<>>)
                \o (IF backendType = "memory-backend-file"
                    THEN << Pair("mem-path", JStr(d.mem.path)) >>
                         \o (IF ~mem.nvdimmPath /\ discard = "yes"
                             THEN << Pair("discard-data", JBool(TRUE)) >>
                             ELSE <<>>)
                    ELSE <<>>)
                \o share
                \o (IF prealloc THEN << Pair("prealloc", JBool(TRUE)) >>
                    ELSE <<>>)
                \o << Pair("size",
                          JNum(U64Mul1024(U64Of(mem.size, mem.sizeHigh)))) >>
                \o (IF mem.alignsize # 0
                    THEN << Pair("align",
                                 JNum(U64Mul1024(U64(mem.alignsize)))) >>
                    ELSE <<>>)
                \o (IF mem.nvdimmPmem THEN << Pair("pmem", JBool(TRUE)) >>
                    ELSE <<>>)
                \o (IF nodeSpecified
                    THEN << Pair("host-nodes",
                                 JArr(<< mem.targetNode >>)),
                            Pair("policy", JStr("bind")) >>
                    ELSE <<>>))
    IN
    IF mem.targetNode >= 0 /\ mem.targetNode >= virDomainNumaGetNodeCount(d)
    THEN E("VIR_ERR_CONFIG_UNSUPPORTED",
           "can't add memory backend for guest node")
    ELSE IF pagesize = "default" /\ ~cfg.hugetlbfs
    THEN E("VIR_ERR_INTERNAL_ERROR",
           "hugetlbfs filesystem is not mounted or disabled by administrator config")
    ELSE IF backendType = "memory-backend-file" /\ useHugepage
            /\ ~mem.nvdimmPath /\ ~cfg.hugetlbfs
    THEN E("VIR_ERR_INTERNAL_ERROR", "unable to find any usable hugetlbfs mount")
    ELSE IF backendType = "memory-backend-file" /\ ~mem.nvdimmPath
            /\ discard = "yes"
            /\ "QEMU_CAPS_OBJECT_MEMORY_FILE_DISCARD" \notin qemuCaps
    THEN E("VIR_ERR_CONFIG_UNSUPPORTED",
           "this QEMU doesn't support memory discard")
    ELSE IF mem.alignsize # 0
            /\ "QEMU_CAPS_OBJECT_MEMORY_FILE_ALIGN" \notin qemuCaps
    THEN E("VIR_ERR_CONFIG_UNSUPPORTED",
           "nvdimm align property is not available with this QEMU binary")
    ELSE IF mem.nvdimmPmem
            /\ "QEMU_CAPS_OBJECT_MEMORY_FILE_PMEM" \notin qemuCaps
    THEN E("VIR_ERR_CONFIG_UNSUPPORTED",
           "nvdimm pmem property is not available with this QEMU binary")
    ELSE IF ~needHugepage /\ ~nodeSpecified /\ ~mem.nvdimmPath
            /\ memAccess = "default"
            /\ d.mem.source \notin { "file", "memfd" } /\ ~force
    THEN MemBackendRes(1, NoErr, props)
    ELSE IF backendType = "memory-backend-file"
            /\ "QEMU_CAPS_OBJECT_MEMORY_FILE" \notin qemuCaps
    THEN E("VIR_ERR_CONFIG_UNSUPPORTED",
           "this qemu doesn't support the memory-backend-file object")
    ELSE IF backendType = "memory-backend-ram"
            /\ "QEMU_CAPS_OBJECT_MEMORY_RAM" \notin qemuCaps
    THEN E("VIR_ERR_CONFIG_UNSUPPORTED",
           "this qemu doesn't support the memory-backend-ram object")
    ELSE IF backendType = "memory-backend-memfd"
            /\ "QEMU_CAPS_OBJECT_MEMORY_MEMFD" \notin qemuCaps
    THEN E("VIR_ERR_CONFIG_UNSUPPORTED",
           "this qemu doesn't support the memory-backend-memfd object")
    ELSE MemBackendRes(0, NoErr, props)

virQEMUCapsGetMachineDefaultRAMid(qemuCaps, d) ==
    IF "MachineDefaultRAMid" \in qemuCaps THEN d.machine \o ".ram" ELSE ""

qemuBuildMemCommandLineMemoryDefaultBackend(d, cfg, qemuCaps, defaultRAMid) ==
    LET mem == [NoMem EXCEPT !.size = d.mem.size, !.alias = defaultRAMid]
        r == qemuBuildMemoryBackendProps(defaultRAMid, cfg, qemuCaps, d, mem,
                                         FALSE, TRUE)
    IN IF r.rc < 0 THEN Res(-1, r.err, <<>>)
       ELSE qemuBuildObjectCommandline(r.props, qemuCaps, "", "memdev", 0)

qemuBuildMemPathStr(d, cfg) ==
    IF d.mem.hugepages \in { "default", "huge" }
    THEN IF ~cfg.hugetlbfs
         THEN Fail("VIR_ERR_INTERNAL_ERROR",
                   "hugetlbfs filesystem is not mounted or disabled by administrator config")
         ELSE Ok((IF d.mem.allocation # "immediate"
                  THEN << Plain("-mem-prealloc") >> ELSE <<>>)
                 \o << Plain("-mem-path") >>)
    ELSE IF d.mem.source = "file"
    THEN Ok((IF d.mem.allocation # "immediate"
             THEN << Plain("-mem-prealloc") >> ELSE <<>>)
            \o << Plain("-mem-path") >>)
    ELSE Ok(<<>>)

qemuBuildMemCommandLine(d, cfg, qemuCaps) ==
    LET defaultRAMid == virQEMUCapsGetMachineDefaultRAMid(qemuCaps, d) IN
    Chain(<<
      Ok(<< [Plain("-m") EXCEPT !.text = Dec(d.mem.size \div 1024)] >>),
      IF defaultRAMid # ""
      THEN IF virDomainNumaGetNodeCount(d) = 0
           THEN Ignored("qemuBuildMemCommandLineMemoryDefaultBackend",
                        qemuBuildMemCommandLineMemoryDefaultBackend(
                            d, cfg, qemuCaps, defaultRAMid))
           ELSE Ok(<<>>)
      ELSE Then(Ok(IF d.mem.allocation = "immediate"
                   THEN << Plain("-mem-prealloc") >> ELSE <<>>),
                IF virDomainNumaGetNodeCount(d) = 0 THEN qemuBuildMemPathStr(d, cfg)
                ELSE Ok(<<>>)),
      Ok(IF "QEMU_CAPS_OVERCOMMIT" \in qemuCaps
         THEN << Plain("-overcommit") >> ELSE << Plain("-realtime") >>) >>)

-----------------------------------------------------------------------------
(* Video devices.  video.ram, vram, vram64, vgamem are unsigned int KiB.    *)

(* the device model and whether it is a virtio device; video.supportsVga    *)
(* is the answer of qemuDomainSupportsVideoVga                              *)
qemuDeviceVideoGetModel(qemuCaps, video) ==
    LET accel3d == IF video.accel THEN video.accel3d ELSE "absent"
        primaryVga == video.primary /\ video.supportsVga
        M(model, virtio) == [null |-> FALSE, err |-> NoErr, model |-> model,
                             virtio |-> virtio]
        none == M("", FALSE)
        found ==
            IF video.backend = "vhostuser"
            THEN IF primaryVga THEN M("vhost-user-vga", FALSE)
                 ELSE M("vhost-user-gpu", TRUE)
            ELSE IF primaryVga
            THEN CASE video.type = "vga" -> M("VGA", FALSE)
                   [] video.type = "cirrus" -> M("cirrus-vga", FALSE)
                   [] video.type = "vmvga" -> M("vmware-svga", FALSE)
                   [] video.type = "qxl" -> M("qxl-vga", FALSE)
                   [] video.type = "virtio" ->
                        IF "QEMU_CAPS_VIRTIO_VGA_GL" \in qemuCaps
                           /\ accel3d = "on"
                        THEN M("virtio-vga-gl", FALSE)
                        ELSE M("virtio-vga", FALSE)
                   [] video.type = "bochs" -> M("bochs-display", FALSE)
                   [] video.type = "ramfb" -> M("ramfb", FALSE)
                   [] OTHER -> none
            ELSE CASE video.type = "qxl" -> M("qxl", FALSE)
                   [] video.type = "virtio" ->
                        IF "QEMU_CAPS_VIRTIO_GPU_GL_PCI" \in qemuCaps
                           /\ accel3d = "on"
                        THEN M("virtio-gpu-gl", TRUE)
                        ELSE M("virtio-gpu", TRUE)
                   [] OTHER -> none
    IN IF found.model = ""
       THEN [null |-> TRUE,
             err |-> Err("VIR_ERR_INTERNAL_ERROR",
                         "invalid model for video type '" \o video.type \o "'"),
             model |-> "", virtio |-> FALSE]
       ELSE found

(* "%u" of an unsigned int product or quotient *)
UDecMul1024(n) == U64Dec(U32(U64Mul1024(U64(n))))

qemuBuildDeviceVideoStr(d, video, qemuCaps) ==
    LET m == qemuDeviceVideoGetModel(qemuCaps, video)
        accel3d == IF video.accel THEN video.accel3d ELSE "absent"
        name == IF m.virtio
                THEN qemuBuildVirtioDevStr(m.model, qemuCaps,
                                           "VIR_DOMAIN_DEVICE_VIDEO", video)
                ELSE Str(m.model, {})
        heads == IF video.heads # 0
                 THEN ",max_outputs=" \o Dec(video.heads) ELSE ""
        sizes ==
            IF video.type = "qxl"
            THEN (IF video.ram # 0
                  THEN ",ram_size=" \o UDecMul1024(video.ram) ELSE "")
                 \o (IF video.vram # 0
                      THEN ",vram_size=" \o UDecMul1024(video.vram) ELSE "")
                 \o (IF "QEMU_CAPS_QXL_VRAM64" \in qemuCaps
                      THEN ",vram64_size_mb=" \o Dec(video.vram64 \div 1024)
                      ELSE "")
                 \o (IF "QEMU_CAPS_QXL_VGAMEM" \in qemuCaps
                      THEN ",vgamem_mb=" \o Dec(video.vgamem \div 1024)
                      ELSE "")
                 \o (IF "QEMU_CAPS_QXL_MAX_OUTPUTS" \in qemuCaps
                      THEN heads ELSE "")
            ELSE IF video.backend = "vhostuser"
            THEN heads \o ",chardev=chr-vu-" \o video.alias
            ELSE IF video.type = "virtio"
            THEN IF "QEMU_CAPS_VIRTIO_GPU_MAX_OUTPUTS" \in qemuCaps
                 THEN heads ELSE ""
            ELSE IF (video.type = "vga" /\ "QEMU_CAPS_VGA_VGAMEM" \in qemuCaps)
                    \/ (video.type = "vmvga"
                        /\ "QEMU_CAPS_VMWARE_SVGA_VGAMEM" \in qemuCaps)
            THEN IF video.vram # 0
                 THEN ",vgamem_mb=" \o Dec(video.vram \div 1024) ELSE ""
            ELSE IF video.type = "bochs"
            THEN IF video.vram # 0
                 THEN ",vgamem=" \o Dec(video.vram) \o "k" ELSE ""
            ELSE ""
    IN IF m.null THEN [rc |-> -1, err |-> m.err, text |-> "", refs |-> {}]
       ELSE StrThen(name,
            StrThen(Str(",id=" \o video.alias
                        \o (IF video.backend # "vhostuser"
                               /\ video.type = "virtio" /\ video.accel
                               /\ "QEMU_CAPS_VIRTIO_GPU_VIRGL" \in qemuCaps
                               /\ accel3d \in { "on", "off" }
                            THEN ",virgl=" \o accel3d ELSE "")
                        \o sizes
                        \o (IF video.resX # 0 /\ video.resY # 0
                            THEN ",xres=" \o Dec(video.resX)
                                     \o ",yres=" \o Dec(video.resY)
                            ELSE ""),
                        IF video.backend = "vhostuser" /\ video.type # "qxl"
                        THEN {Ref("chardev", "chr-vu-" \o video.alias)}
                        ELSE {}),
            StrThen(qemuBuildDeviceAddressStr(d, video.info),
                    Str(qemuBuildVirtioOptionsStr(video.virtio), {}))))

(* qemuDomainGetVhostUserChrAlias *)
qemuDomainGetVhostUserChrAlias(alias) == "chr-vu-" \o alias

(* QEMU_DOMAIN_VIDEO_PRIVATE(video)->vhost_user_fd is video.vhost_user_fd:  *)
(* the name of the descriptor of the helper process, "-1" for -1            *)
VhostUserFd(alias) == "vhostuser-" \o alias

(* a variant that hands the descriptor over and keeps it stored *)
VhostUserChardevStrKeepsFd(alias, fd) ==
    [res |-> WithFds(Ok(<<>>), {}, {}, << VhostUserFd(alias) >>),
     fd |-> VhostUserFd(alias),
     text |-> "socket,id=" \o qemuDomainGetVhostUserChrAlias(alias)
                  \o ",fd=" \o VhostUserFd(alias)]

(* the chardev text, the descriptor handed to the command (res.passed) and  *)
(* what *fd holds afterwards                                                *)
qemuBuildVhostUserChardevStr(alias, fd) ==
    IF fd = "-1"
    THEN [res |-> Fail("VIR_ERR_INTERNAL_ERROR",
                       "Attempt to pass closed vhostuser FD"),
          fd |-> fd, text |-> ""]
    ELSE [res |-> WithFds(Ok(<<>>), {}, {}, << fd >>),
          fd |-> "-1",
          text |-> "socket,id=" \o qemuDomainGetVhostUserChrAlias(alias)
                       \o ",fd=" \o fd]

(* the first loop of qemuBuildVideoCommandLine, from video i on: the        *)
(* result and the videos as the loop leaves them                            *)
RECURSIVE VhostUserChardevs(_, _)
VhostUserChardevs(videos, i) ==
    IF i > Len(videos) THEN [res |-> Ok(<<>>), videos |-> videos]
    ELSE IF videos[i].backend # "vhostuser"
    THEN VhostUserChardevs(videos, i + 1)
    ELSE LET c == qemuBuildVhostUserChardevStr(videos[i].alias,
                                               videos[i].vhost_user_fd)
         IN IF c.res.rc < 0 THEN [res |-> c.res, videos |-> videos]
            ELSE LET rest == VhostUserChardevs(
                                 [videos EXCEPT ![i].vhost_user_fd = c.fd],
                                 i + 1)
                 IN [res |-> Then(Then(c.res,
                                       Ok(<< [Frag("-chardev", videos[i].alias,
                                                   "chardev",
                                                   qemuDomainGetVhostUserChrAlias(
                                                       videos[i].alias), {})
                                                EXCEPT !.text = c.text] >>)),
                                  rest.res),
                     videos |-> rest.videos]

(* the second loop; d.bad = "Video": qemuCommandAddExtDevice fails *)
VideoDevices(d, qemuCaps) ==
    Chain([i \in 1..Len(d.videos) |->
             IF d.videos[i].type = "none" THEN Ok(<<>>)
             ELSE IF d.bad = "Video"
             THEN Fail("VIR_ERR_CONFIG_UNSUPPORTED", "Video")
             ELSE LET str == qemuBuildDeviceVideoStr(d, d.videos[i], qemuCaps)
                  IN IF str.rc < 0
                     THEN Res(-1, str.err, << Plain("-device") >>)
                     ELSE Ok(<< [Frag("-device", d.videos[i].alias, "device",
                                      d.videos[i].alias, str.refs)
                                    EXCEPT !.text = str.text] >>)])

(* the result and the videos of the definition afterwards *)
qemuBuildVideoCommandLine(d, qemuCaps) ==
    LET first == VhostUserChardevs(d.videos, 1) IN
    [res |-> Then(first.res, VideoDevices(d, qemuCaps)),
     videos |-> first.videos]

-----------------------------------------------------------------------------
(* NUMA cells.  A cell of d.cells has its memory size in KiB, its memory    *)
(* access mode, its discard setting, the ranges of its cpu mask as          *)
(* virBitmapFormat writes them (<<>>: no cpus) and whether <numatune> has a *)
(* <memnode> for it.  d.hmat: the definition has HMAT data (one             *)
(* interconnect); d.numaDistances: distances are set for some pair.         *)

Cell(size, access, cpus) ==
    [size |-> size, access |-> access, discard |-> "absent", cpus |-> cpus,
     tuned |-> FALSE]

(* nodeBackends[i] when the loop over the cells did not run *)
NoCellBackend == [rc |-> 1, err |-> NoErr, text |-> ""]

(* cell: the node id, from 0 *)
qemuBuildMemoryCellBackendStr(d, cfg, cell, qemuCaps) ==
    LET alias == "ram-node" \o Dec(cell)
        mem == [NoMem EXCEPT !.size = d.cells[cell + 1].size,
                             !.targetNode = cell, !.alias = alias]
        r == qemuBuildMemoryBackendProps(alias, cfg, qemuCaps, d, mem,
                                         FALSE, FALSE)
    IN IF r.rc < 0 THEN [rc |-> -1, err |-> r.err, text |-> ""]
       ELSE LET str == qemuBuildObjectCommandlineFromJSON(r.props, qemuCaps)
            IN IF str.rc < 0 THEN [rc |-> -1, err |-> str.err, text |-> ""]
               ELSE [rc |-> r.rc, err |-> NoErr, text |-> str.text]

virQEMUCapsGetMachineNumaMemSupported(qemuCaps, d) ==
    "MachineNumaMemSupported" \in qemuCaps

(* the loop over the cells that writes -object and -numa node *)
NumaNodes(d, needBackend, nodeBackends, masterInitiator) ==
    Flatten([n \in 1..virDomainNumaGetNodeCount(d) |->
        LET i == n - 1
            cpus == Join([k \in 1..Len(d.cells[n].cpus) |->
                             ",cpus=" \o d.cells[n].cpus[k]], "")
        IN (IF needBackend
            THEN << [Frag("-object", "", "memdev",
                          IF nodeBackends[n].text = "" THEN ""
                          ELSE "ram-node" \o Dec(i), {})
                        EXCEPT !.text = nodeBackends[n].text] >>
            ELSE <<>>)
           \o << [Frag("-numa", "", "numa", "",
                       IF needBackend
                       THEN {Ref("memdev", "ram-node" \o Dec(i))} ELSE {})
                     EXCEPT !.text =
                        "node,nodeid=" \o Dec(i) \o cpus
                        \o (IF d.hmat
                            THEN ",initiator=" \o Dec(masterInitiator)
                            ELSE "")
                        \o (IF needBackend
                            THEN ",memdev=ram-node" \o Dec(i)
                            ELSE ",mem=" \o Dec(d.cells[n].size \div 1024))] >>])

NumaDistances(d) ==
    IF ~d.numaDistances THEN <<>>
    ELSE Flatten([i \in 1..virDomainNumaGetNodeCount(d) |->
            [j \in 1..virDomainNumaGetNodeCount(d) |->
                [Plain("-numa") EXCEPT !.kind = "numa", !.text =
                    "dist,src=" \o Dec(i - 1) \o ",dst=" \o Dec(j - 1)
                    \o ",val=" \o (IF i = j THEN "10" ELSE "20")]]])

qemuBuildNumaHMATCommandLine(d) ==
    << [Plain("-numa") EXCEPT !.kind = "numa", !.text =
          "hmat-lb,initiator=0,target=0,hierarchy=memory,"
          \o "data-type=access-latency,latency=5"] >>

(* qemuBuildNumaCommandLine after its loop over qemuBuildMemoryCellBackendStr *)
NumaCommandLineWith(cfg, d, qemuCaps, nodeBackends) ==
    LET ncells == virDomainNumaGetNodeCount(d)
        failedCells == {n \in 1..ncells : nodeBackends[n].rc < 0}
        needBackend ==
            \/ ~virQEMUCapsGetMachineNumaMemSupported(qemuCaps, d)
            \/ d.hmat
            \/ \E n \in 1..ncells : nodeBackends[n].rc = 0
        withCpus == {n \in 1..ncells : d.cells[n].cpus # <<>>}
    IN IF d.bad = "Numa"
       THEN Fail("VIR_ERR_CONFIG_UNSUPPORTED", "Numa")
       ELSE IF failedCells # {}
       THEN Res(-1,
                nodeBackends[CHOOSE n \in failedCells :
                                \A m \in failedCells : n <= m].err,
                <<>>)
       ELSE Then(IF ~needBackend THEN qemuBuildMemPathStr(d, cfg)
                 ELSE Ok(<<>>),
                 IF withCpus = {}
                 THEN Fail("VIR_ERR_CONFIG_UNSUPPORTED",
                           "At least one NUMA node has to have CPUs")
                 ELSE Ok(NumaNodes(d, needBackend, nodeBackends,
                                   (CHOOSE n \in withCpus :
                                       \A m \in withCpus : n <= m) - 1)
                         \o NumaDistances(d)
                         \o (IF d.hmat THEN qemuBuildNumaHMATCommandLine(d)
                             ELSE <<>>)))

qemuBuildNumaCommandLine(cfg, d, qemuCaps) ==
    NumaCommandLineWith(cfg, d, qemuCaps,
        IF \/ "QEMU_CAPS_OBJECT_MEMORY_RAM" \in qemuCaps
           \/ "QEMU_CAPS_OBJECT_MEMORY_FILE" \in qemuCaps
           \/ "QEMU_CAPS_OBJECT_MEMORY_MEMFD" \in qemuCaps
        THEN [n \in 1..virDomainNumaGetNodeCount(d) |->
                 qemuBuildMemoryCellBackendStr(d, cfg, n - 1, qemuCaps)]
        ELSE [n \in 1..virDomainNumaGetNodeCount(d) |-> NoCellBackend])

-----------------------------------------------------------------------------
(* Firmware and machine *)

(* priv->pflash0 is set up before the pass, with -blockdev only *)
Pflash0(d, qemuCaps) == Blockdev(qemuCaps) /\ d.loader = "pflash"

PflashSrc == << [objs |-> {}, slice |-> FALSE] >>

qemuBuildPflashBlockdevOne(dev, src, qemuCaps) ==
    AttachChain(qemuBuildStorageSourceChainAttachPrepareBlockdev(dev, src),
                qemuCaps,
                Len(src))

qemuBuildPflashBlockdevCommandLine(d, qemuCaps) ==
    IF ~Blockdev(qemuCaps) THEN Ok(<<>>)
    ELSE IF Pflash0(d, qemuCaps)
    THEN qemuBuildPflashBlockdevOne("pflash0", PflashSrc, qemuCaps)
    ELSE Ok(<<>>)

qemuBuildMachineCommandLine(d, qemuCaps) ==
    LET defaultRAMid == virQEMUCapsGetMachineDefaultRAMid(qemuCaps, d)
        refs == (IF d.sec # "none"
                 THEN {Ref("confidential-guest-support", "lsec0")} ELSE {})
                \cup (IF Pflash0(d, qemuCaps)
                      THEN {Ref("pflash0", NodeName("pflash0", 1, "format"))}
                      ELSE {})
                \cup (IF virDomainNumaGetNodeCount(d) = 0 /\ defaultRAMid # ""
                      THEN {Ref("memory-backend", defaultRAMid)} ELSE {})
    IN IF d.virtType \notin { "qemu", "kvm" }
       THEN Res(-1, Err("VIR_ERR_CONFIG_UNSUPPORTED",
                        "the QEMU binary does not support " \o d.virtType),
                << Plain("-machine") >>)
       ELSE IF d.bad = "Machine"
       THEN Res(-1, Err("VIR_ERR_CONFIG_UNSUPPORTED", "Machine"),
                << Plain("-machine") >>)
       ELSE Ok(<< Frag("-machine", "", "", "", refs) >>)

qemuBuildDomainLoader(d, qemuCaps) ==
    CASE d.loader = "rom" -> << Plain("-bios") >>
      [] d.loader = "pflash" ->
           IF Blockdev(qemuCaps) THEN <<>>
           ELSE << Frag("-drive", "pflash0", "backend", "", {}) >>
      [] OTHER -> <<>>

-----------------------------------------------------------------------------
(* Controllers *)

qemuDomainHasBuiltinIDE(d) == d.machine = "pc"

qemuBuildSkipController(controller, d) ==
    \/ controller.type = "pci" /\ controller.model = "pcie-root"
    \/ d.machine # "pseries" /\ controller.type = "pci"
          /\ controller.model = "pci-root"
    \/ controller.type = "sata" /\ controller.idx = 0 /\ d.machine = "q35"
    \/ controller.type = "ide" /\ controller.idx = 0
          /\ qemuDomainHasBuiltinIDE(d)

qemuBuildDomainForbidLegacyUSBController(d) == d.machine = "q35"

qemuBuildUSBControllerDevStr(cont) ==
    IF cont.model = "default"
    THEN StrFail("VIR_ERR_CONFIG_UNSUPPORTED",
                 "no model provided for USB controller")
    ELSE Str(cont.model \o ",id=" \o cont.alias, {})

(* text "" stands for a NULL devstr: nothing to add for this controller *)
qemuBuildControllerDevStr(d, cont, qemuCaps) ==
    LET head ==
        CASE cont.type = "scsi" ->
               StrThen(qemuBuildVirtioDevStr("virtio-scsi", qemuCaps,
                           "VIR_DOMAIN_DEVICE_CONTROLLER",
                           [info |-> cont.info, model |-> cont.model,
                            sub |-> "scsi"]),
                       Str(",id=" \o cont.alias, {}))
          [] cont.type = "sata" -> Str("ahci,id=" \o cont.alias, {})
          [] cont.type = "usb" -> qemuBuildUSBControllerDevStr(cont)
          [] cont.type = "pci" ->
               IF cont.model = "pci-bridge"
               THEN Str("pci-bridge,chassis_nr=" \o Dec(cont.idx)
                            \o ",id=" \o cont.alias, {})
               ELSE IF cont.model = "pcie-root"
               THEN StrFail("VIR_ERR_CONFIG_UNSUPPORTED",
                            "Unsupported PCI Express root controller")
               ELSE Str("spapr-pci-host-bridge,index="
                            \o Dec(cont.targetIndex) \o ",id=" \o cont.alias, {})
          [] OTHER ->
               StrFail("VIR_ERR_CONFIG_UNSUPPORTED",
                       "Unsupported controller type: " \o cont.type)
    IN IF cont.type = "pci" /\ cont.model = "pci-root" /\ cont.targetIndex = 0
       THEN Str("", {})
       ELSE StrThen(head, qemuBuildDeviceAddressStr(d, cont.info))

qemuBuildControllersByTypeCommandLine(d, qemuCaps, type) ==
    Chain([i \in 1..Len(d.controllers) |->
        LET cont == d.controllers[i]
            devstr == qemuBuildControllerDevStr(d, cont, qemuCaps)
        IN IF cont.type # type THEN Ok(<<>>)
           ELSE IF qemuBuildSkipController(cont, d) THEN Ok(<<>>)
           ELSE IF cont.type = "usb" /\ cont.model = "none" THEN Ok(<<>>)
           ELSE IF cont.type = "usb" /\ cont.model = "default"
                   /\ ~qemuBuildDomainForbidLegacyUSBController(d)
           THEN Ok(<<>>)
           ELSE IF devstr.rc < 0 THEN Res(-1, devstr.err, <<>>)
           ELSE IF devstr.text = "" THEN Ok(<<>>)
           ELSE Ok(<< [Frag("-device", cont.alias, "controller", cont.alias,
                            devstr.refs) EXCEPT !.text = devstr.text] >>)])

qemuBuildLegacyUSBControllerCommandLine(d) ==
    LET usb == {i \in 1..Len(d.controllers) : d.controllers[i].type = "usb"}
        nlegacy == Cardinality({i \in usb : d.controllers[i].model = "default"})
        nusb == Cardinality({i \in usb : d.controllers[i].model # "default"})
    IN IF \E i \in usb : d.controllers[i].model = "none" THEN Ok(<<>>)
       ELSE IF nlegacy > 1
       THEN Fail("VIR_ERR_CONFIG_UNSUPPORTED",
                 "Multiple legacy USB controllers are not supported")
       ELSE IF nusb = 0 /\ ~qemuBuildDomainForbidLegacyUSBController(d)
       THEN Ok(<< Plain("-usb") >>)
       ELSE Ok(<<>>)

contOrder == << "pci", "usb", "scsi", "ide", "sata", "virtio-serial" >>

qemuBuildControllersCommandLine(d, qemuCaps) ==
    Then(Chain([i \in 1..Len(contOrder) |->
                   qemuBuildControllersByTypeCommandLine(d, qemuCaps,
                                                         contOrder[i])]),
         qemuBuildLegacyUSBControllerCommandLine(d))

-----------------------------------------------------------------------------
(* The steps of qemuBuildCommandLine *)

qemuBuildCommandLineValidate ==
    Apply("Validate", "",
          IF def.bad = "Validate"
          THEN Fail("VIR_ERR_CONFIG_UNSUPPORTED", "Validate") ELSE Ok(<<>>),
          def)

qemuBuildNameCommandLine ==
    Apply("Name", "name", Ok(<< Plain("-name") >>), def)

(* qemuBuildCompatDeprecatedCommandLine returns void; "-S" follows it *)
qemuBuildCompatDeprecatedCommandLine ==
    Apply("CompatDeprecated", "compat",
          Ok((IF "compat" \in def.has THEN << Plain("-compat") >> ELSE <<>>)
             \o (IF ~args.standalone THEN << Inline("-S", "misc") >> ELSE <<>>)),
          def)

(* a variant that treats a binary without secret objects as a failure *)
MasterKeyRequiresSecretObject ==
    Apply("MasterKey", "master-key",
          IF "QEMU_CAPS_OBJECT_SECRET" \notin caps \/ def.bad = "MasterKey"
          THEN Fail("VIR_ERR_INTERNAL_ERROR", "MasterKey")
          ELSE Ok(<< Frag("-object", "", "secret", "masterKey0", {}) >>),
          def)

qemuBuildMasterKeyCommandLine ==
    Apply("MasterKey", "master-key",
          IF "QEMU_CAPS_OBJECT_SECRET" \notin caps THEN Ok(<<>>)
          ELSE IF def.bad = "MasterKey"
               THEN Fail("VIR_ERR_INTERNAL_ERROR", "MasterKey")
               ELSE Ok(<< Frag("-object", "", "secret", "masterKey0", {}) >>),
          def)

qemuBuildDBusVMStateCommandLine ==
    Apply("DBusVMState", "misc",
          Builder(def, "DBusVMState",
                  << Frag("-object", "", "", "dbus-vmstate0", {}) >>),
          def)

qemuBuildManagedPRCommandLine ==
    Apply("ManagedPR", "misc",
          IF ~def.managedPR THEN Ok(<<>>)
          ELSE IF def.bad = "ManagedPR"
               THEN Fail("VIR_ERR_INTERNAL_ERROR", "ManagedPR")
               ELSE Ok(<< Frag("-object", "", "", "pr-helper0", {}) >>),
          def)

qemuBuildPflashBlockdev ==
    Apply("PflashBlockdev", "firmware-pflash",
          Then(qemuBuildPflashBlockdevCommandLine(def, caps),
               Ok(IF args.enableFips
                  THEN << Inline("-enable-fips", "misc") >> ELSE <<>>)),
          def)

qemuBuildMachine ==
    Apply("Machine", "machine", qemuBuildMachineCommandLine(def, caps), def)

qemuBuildTSEGCommandLine ==
    Apply("TSEG", "misc",
          Ok(IF "tseg" \in def.has THEN << Plain("-global") >> ELSE <<>>), def)

qemuBuildCpuCommandLine ==
    Apply("Cpu", "cpu", Builder(def, "Cpu", << Plain("-cpu") >>), def)

qemuBuildDomainLoaderCommandLine ==
    Apply("DomainLoader", "firmware-loader", Ok(qemuBuildDomainLoader(def, caps)), def)

qemuBuildMem ==
    Apply("Mem", "memory", qemuBuildMemCommandLine(def, args, caps), def)

qemuBuildSmpCommandLine ==
    Apply("Smp", "smp",
          IF def.bad = "Smp"
          THEN Res(-1, Err("VIR_ERR_CONFIG_UNSUPPORTED",
                           "Only 1 die per socket is supported"),
                   << Plain("-smp") >>)
          ELSE Ok(<< Plain("-smp") >>),
          def)

qemuBuildIOThreadCommandLine ==
    Apply("IOThread", "iothreads",
          Builder(def, "IOThread",
                  << Frag("-object", "", "", "iothread1", {}) >>),
          def)

qemuBuildNuma ==
    Apply("Numa", "numa",
          IF virDomainNumaGetNodeCount(def) = 0 THEN Ok(<<>>)
          ELSE qemuBuildNumaCommandLine(args, def, caps),
          def)

qemuBuildMemoryDeviceCommandLine ==
    Apply("MemoryDevice", "misc",
          Builder(def, "MemoryDevice",
                  << Frag("-object", "dimm0", "memdev", "memdimm0", {}),
                     Frag("-device", "dimm0", "device", "dimm0",
                          {Ref("memdev", "memdimm0")}) >>),
          def)

AddUuid ==
    Apply("Uuid", "uuid", Ok(<< Plain("-uuid") >>), def)

qemuBuildSmbiosCommandLine ==
    Apply("Smbios", "smbios", Builder(def, "Smbios", << Plain("-smbios") >>), def)

qemuBuildSysinfoCommandLine ==
    Apply("Sysinfo", "smbios", Builder(def, "Sysinfo", << Plain("-fw_cfg") >>),
          def)

(* "-display none" without graphics, "-no-user-config" and "-nodefaults" follow *)
qemuBuildVMGenIDCommandLine ==
    Apply("VMGenID", "misc",
          Then(Builder(def, "VMGenID", << Plain("-device") >>),
               Ok((IF def.graphics = <<>>
                   THEN << Plain("-display") >> ELSE <<>>)
                  \o << Plain("-no-user-config"), Plain("-nodefaults") >>)),
          def)

qemuBuildSgaCommandLine ==
    Apply("Sga", "misc", Builder(def, "Sga", << Plain("-device") >>), def)

qemuBuildMonitorCommandLine ==
    Apply("Monitor", "misc",
          Builder(def, "Monitor",
                  << Frag("-chardev", "monitor", "chardev", "charmonitor", {}),
                     Frag("-mon", "monitor", "", "",
                          {Ref("chardev", "charmonitor")}) >>),
          def)

(* what the host does to one interface: the failing step, how many tap     *)
(* descriptors were labelled before a label failure, whether vhost-net is   *)
(* there, whether Open vSwitch knows the port, the unix socket's fate       *)
NetSteps ==
    { "none", "validate", "connect", "ifname", "host", "vhostnet", "label",
      "hostnet" }

NetOutcomes ==
    { NetOutcome(st, k, TRUE, TRUE, "none") :
          st \in NetSteps, k \in 0..(MaxQueues - 1) }
    \cup { NetOutcome("none", 0, FALSE, FALSE, c) : c \in HostFailures }

TPMFailures == { "none", "open", "cancel" }

qemuBuildClock ==
    \E tz \in TzOutcomes :
        LET r == qemuBuildClockCommandLine(def, tz)
        IN Apply("Clock", "boot-clock-pm", r.res,
                 [def EXCEPT !.clock = r.clock])

qemuBuildPMCommandLine ==
    Apply("PM", "boot-clock-pm", Builder(def, "PM", << Plain("-no-acpi") >>),
          def)

qemuBuildBootCommandLine ==
    Apply("Boot", "boot-clock-pm", Builder(def, "Boot", << Plain("-boot") >>),
          def)

qemuBuildIOMMUCommandLine ==
    Apply("IOMMU", "misc", Builder(def, "IOMMU", << Plain("-device") >>), def)

qemuBuildGlobalControllerCommandLine ==
    Apply("GlobalController", "misc",
          Builder(def, "GlobalController", << Plain("-global") >>), def)

qemuBuildControllers ==
    Apply("Controllers", "controllers",
          qemuBuildControllersCommandLine(def, caps), def)

qemuBuildHubCommandLine ==
    Apply("Hub", "misc", Builder(def, "Hub", << Plain("-device") >>), def)

qemuBuildControllersByType ==
    Apply("ControllersByType", "controllers",
          qemuBuildControllersByTypeCommandLine(def, caps, "ccid"), def)

qemuBuildDisks ==
    Apply("Disks", "storage", qemuBuildDisksCommandLine(def, caps), def)

qemuBuildFilesystemCommandLine ==
    Apply("Filesystem", "filesystems",
          Builder(def, "Filesystem",
                  << Frag("-fsdev", "fs0", "fsdev", "fsdev-fs0", {}),
                     Frag("-device", "fs0", "device", "fs0",
                          {Ref("fsdev", "fsdev-fs0")}) >>),
          def)

qemuBuildNet ==
    \E hs \in [1..Len(def.nets) -> NetOutcomes] :
        LET r == qemuBuildNetCommandLine(def, args, caps, bootHostdevNet, hs)
        IN ApplyWith("Net", "network", r.res, [def EXCEPT !.nets = r.nets],
                     r.boot, r.torn)

qemuBuildSmartcardCommandLine ==
    Apply("Smartcard", "misc",
          Builder(def, "Smartcard", << Plain("-device") >>), def)

qemuBuildSerial ==
    \E h \in HostFailures :
        Apply("Serial", "chardevs",
              qemuBuildSerialCommandLine(def, args, caps, h), def)

qemuBuildParallelsCommandLine ==
    Apply("Parallels", "chardevs",
          Builder(def, "Parallels",
                  << Frag("-chardev", "parallel0", "chardev", "charparallel0", {}),
                     Frag("-device", "parallel0", "device", "parallel0",
                          {Ref("chardev", "charparallel0")}) >>),
          def)

qemuBuildChannelsCommandLine ==
    Apply("Channels", "chardevs",
          Builder(def, "Channels",
                  << Frag("-chardev", "channel0", "chardev", "charchannel0", {}),
                     Frag("-device", "channel0", "device", "channel0",
                          {Ref("chardev", "charchannel0")}) >>),
          def)

qemuBuildConsoleCommandLine ==
    Apply("Console", "chardevs",
          Builder(def, "Console",
                  << Frag("-chardev", "console0", "chardev", "charconsole0", {}),
                     Frag("-device", "console0", "device", "console0",
                          {Ref("chardev", "charconsole0")}) >>),
          def)

qemuBuildTPMs ==
    \E h \in TPMFailures :
        Apply("TPMs", "tpm", qemuBuildTPMsCommandLine(def, h), def)

qemuBuildInputCommandLine ==
    Apply("Input", "input", Builder(def, "Input", << Plain("-device") >>), def)

qemuBuildAudioCommandLine ==
    Apply("Audio", "audio", Builder(def, "Audio", << Plain("-audiodev") >>), def)

(* one turn of the loop over def->graphics: the switch on graphics->type.  *)
(* The builders of the four display types are not looked into: they fail    *)
(* with an error for a definition they reject.                              *)
GraphicsOne(d, type) ==
    CASE type \in { "sdl", "vnc", "spice", "egl-headless" } ->
           IF d.bad = "Graphics"
           THEN Fail("VIR_ERR_CONFIG_UNSUPPORTED", "Graphics")
           ELSE Ok(<< Plain(CASE type = "vnc" -> "-vnc"
                              [] type = "spice" -> "-spice"
                              [] OTHER -> "-display") >>)
      [] type \in { "rdp", "desktop" } -> Res(-1, NoErr, <<>>)
      [] OTHER ->
           LET e == virReportEnumRangeError("virDomainGraphicsType", type)
           IN Res(-1, e.err, <<>>)

qemuBuildGraphicsCommandLine ==
    Apply("Graphics", "graphics-video",
          Chain([i \in 1..Len(def.graphics) |->
                    GraphicsOne(def, def.graphics[i])]),
          def)

qemuBuildVideo ==
    LET r == qemuBuildVideoCommandLine(def, caps) IN
    Apply("Video", "graphics-video", r.res, [def EXCEPT !.videos = r.videos])

qemuBuildSoundCommandLine ==
    Apply("Sound", "sound", Builder(def, "Sound", << Plain("-device") >>), def)

qemuBuildWatchdogCommandLine ==
    Apply("Watchdog", "watchdog",
          Builder(def, "Watchdog", << Plain("-device") >>), def)

qemuBuildRedirdevCommandLine ==
    Apply("Redirdev", "redirdev",
          Builder(def, "Redirdev",
                  << Frag("-chardev", "redir0", "chardev", "charredir0", {}),
                     Frag("-device", "redir0", "device", "redir0",
                          {Ref("chardev", "charredir0")}) >>),
          def)

(* "-incoming" follows the host devices *)
qemuBuildHostdev ==
    \E h \in { "none", "open" } :
        LET r == qemuBuildHostdevCommandLine(def, caps, bootHostdevNet, h)
        IN ApplyWith("Hostdev", "hostdev",
                     Then(r.res,
                          Ok(IF args.migrateURI
                             THEN << Inline("-incoming", "misc") >> ELSE <<>>)),
                     def, r.boot, <<>>)

qemuBuildMemballoonCommandLine ==
    Apply("Memballoon", "balloon",
          Builder(def, "Memballoon", << Plain("-device") >>), def)

qemuBuildRNGCommandLine ==
    Apply("RNG", "rng",
          Builder(def, "RNG",
                  << Frag("-object", "rng0", "rng", "objrng0", {}),
                     Frag("-device", "rng0", "device", "rng0",
                          {Ref("rng", "objrng0")}) >>),
          def)

qemuBuildNVRAMCommandLine ==
    Apply("NVRAM", "nvram", Builder(def, "NVRAM", << Plain("-global") >>), def)

qemuBuildVMCoreInfoCommandLine ==
    Apply("VMCoreInfo", "vmcoreinfo",
          Ok(IF "VMCoreInfo" \in def.has THEN << Plain("-device") >> ELSE <<>>),
          def)

qemuBuildSecCommandLine ==
    Apply("Sec", "launch-security",
          IF def.sec = "none" THEN Ok(<<>>)
          ELSE IF def.bad = "Sec" THEN Fail("VIR_ERR_INTERNAL_ERROR", "Sec")
          ELSE Ok(<< Frag("-object", "", "lsec", "lsec0", {}) >>),
          def)

AddLoadvm ==
    Apply("Loadvm", "snapshot-load",
          Ok(IF args.snapshot THEN << Plain("-loadvm") >> ELSE <<>>), def)

qemuBuildSeccompSandboxCommandLine ==
    Apply("SeccompSandbox", "sandbox",
          Builder(def, "SeccompSandbox", << Plain("-sandbox") >>), def)

(* one round of the loop over def->panics; i counts from 1.  The inner     *)
(* switch has cases for the address types isa and none only, and the case   *)
(* of the isa model then runs into the cases of the other models, which are *)
(* a bare break.                                                            *)
PanicOne(panic, i) ==
    LET Device(text) ==
            << [Frag("-device", "panic" \o Dec(i - 1), "", "", {})
                   EXCEPT !.text = text] >>
    IN CASE panic.model = "isa" ->
              (CASE panic.info.type = "isa" ->
                        Device("pvpanic,ioport=" \o Dec(panic.info.iobase))
                 [] panic.info.type = "none" -> Device("pvpanic")
                 [] OTHER -> <<>>)
         [] OTHER -> <<>>

qemuBuildPanicCommandLine ==
    Apply("Panic", "panic",
          Ok(Flatten([i \in 1..Len(def.panics) |-> PanicOne(def.panics[i], i)])),
          def)

qemuBuildShmem ==
    \E h \in { "none", "socket", "setlabel" } :
        Apply("Shmem", "shmem",
              Chain([i \in 1..Len(def.shmems) |->
                        qemuBuildShmemCommandLine(def, def.shmems[i], args,
                                                  caps, h)]),
              def)

qemuBuildVsockCommandLine ==
    Apply("Vsock", "vsock",
          IF "Vsock" \notin def.has THEN Ok(<<>>)
          ELSE IF def.bad = "Vsock"
          THEN Fail("VIR_ERR_CONFIG_UNSUPPORTED", "Vsock")
          ELSE Ok(<< Plain("-device") >>),
          def)

(* the last lines of qemuBuildCommandLine: "-msg" and the command returned *)
qemuBuildCommandLineReturn ==
    /\ pc = "Return"
    /\ cmd' = cmd \o (IF args.logTimestamp
                      THEN << Inline("-msg", "misc") >> ELSE <<>>)
    /\ ret' = "cmd"
    /\ pc' = "done"
    /\ UNCHANGED << def, def0, caps, args, cmdFds, openFds, err, failed,
                    passFds, call, bootHostdevNet,
                    nwfilterTeardown >>

-----------------------------------------------------------------------------
(* The definitions, capabilities and arguments a pass starts from *)

AllObjs ==
    { "prmgr", "authsecret", "encryptsecret", "httpcookiesecret",
      "tlsKeySecret", "tls" }

Layer(objs) == [objs |-> objs, slice |-> FALSE]

TopLayers ==
    { Layer({}), Layer({"tls"}), Layer({"authsecret", "encryptsecret"}),
      Layer(AllObjs), [objs |-> {"prmgr"}, slice |-> TRUE] }

BackingLayers == { Layer({}), Layer({"authsecret"}) }

(* backing chains of 1..MaxLayers layers, the top image first *)
Chains ==
    UNION { { << top >> \o [i \in 1..n |-> back[i]] :
                top \in TopLayers, back \in [1..n -> BackingLayers] } :
            n \in 0..(MaxLayers - 1) }

(* a disk with every optional frontend setting absent *)
Disk(alias, bus, srcType, src, info) ==
    [alias |-> alias, bus |-> bus, device |-> "disk", srcType |-> srcType,
     src |-> src, copy_on_read |-> FALSE, transientShared |-> FALSE,
     model |-> "virtio", info |-> info, srcBad |-> FALSE,
     nodeformat |-> "", shared |-> FALSE, iothread |-> 0,
     ioeventfd |-> "absent", event_idx |-> "absent", queues |-> 0,
     virtio |-> NoVirtioOptions, bootindex |-> 0,
     logical_block_size |-> 0, physical_block_size |-> 0, wwn |-> "",
     rotation_rate |-> 0, vendor |-> "", product |-> "",
     removable |-> "absent", cachemode |-> "default",
     geometry |-> [cylinders |-> 0, heads |-> 0, sectors |-> 0,
                   trans |-> "default"],
     serial |-> "", error_policy |-> "default", rerror_policy |-> "default"]

DriveInfo(bus, unit) == [NoInfo EXCEPT !.type = "drive", !.bus = bus, !.slot = unit]

UsbInfo(bus, port) == [NoInfo EXCEPT !.type = "usb", !.bus = bus, !.slot = port]

VirtioDisk(src) == Disk("virtio-disk0", "virtio", "file", src, PciInfo(0, 4))

Cont(type, idx, alias, model, info) ==
    [type |-> type, idx |-> idx, alias |-> alias, model |-> model,
     targetIndex |-> 0, info |-> info]

Net(alias, type, queues, model) ==
    [alias |-> alias, type |-> type, queues |-> queues, ifname |-> "",
     model |-> model, info |-> PciInfo(0, 3), bootIndex |-> 0,
     source |-> [ChrSource("unix") EXCEPT !.listen = TRUE]]

Serial(alias, source) == [alias |-> alias, source |-> source]

Tpm(type, model) ==
    [alias |-> "tpm0", type |-> type, model |-> model, info |-> NoInfo]

Shmem(model, server) ==
    [alias |-> "shmem0", name |-> "my,shmem", model |-> model,
     server |-> server, size |-> 4,
     sizeOk |-> TRUE, info |-> PciInfo(0, 9), chr |-> ChrSource("unix")]

Hostdev(alias, sub, model, info) ==
    [alias |-> alias, sub |-> sub, model |-> model, info |-> info,
     parentnet |-> "", bootIndex |-> 0]

(* the host device libvirt keeps in def->hostdevs for an interface of type  *)
(* hostdev                                                                  *)
NetHostdev(net, info) ==
    [Hostdev("hostdev-" \o net, "pci", "", info) EXCEPT !.parentnet = net]

(* a video device; one with the vhostuser backend has the descriptor of its *)
(* helper process stored                                                    *)
Video(alias, type, backend, info) ==
    [type |-> type, backend |-> backend, primary |-> alias = "video0",
     supportsVga |-> TRUE, accel |-> FALSE, accel3d |-> "absent",
     ram |-> 0, vram |-> 16384, vram64 |-> 0, vgamem |-> 0, heads |-> 1,
     resX |-> 0, resY |-> 0, alias |-> alias, info |-> info,
     model |-> "virtio", sub |-> "", virtio |-> NoVirtioOptions,
     vhost_user_fd |-> IF backend = "vhostuser" THEN VhostUserFd(alias)
                       ELSE "-1"]

(* model: "isa", "s390", "hyperv", "pseries"; addrType: the type of the     *)
(* device's address; iobase: info.addr.isa.iobase                           *)
Panic(model, addrType, iobase) ==
    [model |-> model, info |-> [type |-> addrType, iobase |-> iobase]]

(* one device of every kind *)
FullDef ==
    [BaseDef EXCEPT
       !.loader = "pflash",
       !.sec = "sev",
       !.managedPR = TRUE,
       !.clock = [offset |-> "variable", basis |-> "localtime",
                  adjustment |-> 60, adjustment0 |-> 0, rtc |-> "none",
                  timer |-> "hpet-off"],
       !.controllers = << PciRoot,
                          Cont("usb", 0, "usb", "piix3-uhci", PciInfo(0, 1)),
                          Cont("scsi", 0, "scsi0", "virtio-scsi", PciInfo(0, 2)),
                          Cont("ide", 0, "ide", "piix3", NoInfo) >>,
       !.disks = << VirtioDisk(<< Layer(AllObjs), Layer({"authsecret"}) >>),
                    [Disk("ide0-0-0", "ide", "empty", << Layer({}) >>, DriveInfo(0, 0))
                        EXCEPT !.device = "cdrom"],
                    Disk("scsi0-0-0-0", "scsi", "file", << Layer({}) >>,
                         DriveInfo(0, 0)),
                    Disk("virtio-disk1", "virtio", "vhostuser", << Layer({}) >>,
                         PciInfo(0, 5)) >>,
       !.nets = << Net("net0", "bridge", MaxQueues, "virtio") >>,
       !.chardevs = << Serial("serial0",
                              [ChrSource("unix") EXCEPT !.listen = TRUE,
                                                        !.logfile = TRUE]) >>,
       !.tpms = << Tpm("passthrough", "tpm-tis") >>,
       !.hostdevs = << Hostdev("hostdev0", "scsi_host", "virtio", PciInfo(0, 7)),
                       Hostdev("hostdev1", "pci", "", PciInfo(0, 8)) >>,
       !.shmems = << Shmem("ivshmem-plain", FALSE) >>,
       !.graphics = << "vnc" >>,
       !.has = { "compat", "tseg", "Cpu", "IOThread", "Smbios", "Sysinfo",
                 "Monitor", "PM", "Boot", "Filesystem", "Console", "Input",
                 "Audio", "Sound", "Watchdog", "Redirdev",
                 "Memballoon", "RNG", "NVRAM", "VMCoreInfo", "SeccompSandbox",
                 "Vsock" },
       !.panics = << Panic("isa", "none", 0) >>,
       !.videos = << Video("video0", "vga", "default", PciInfo(0, 2)) >>]

(* the builders a definition can make fail *)
BadBuilders ==
    { "Validate", "MasterKey", "DBusVMState", "ManagedPR", "Machine", "Cpu",
      "Smp", "IOThread", "Numa", "MemoryDevice", "Smbios", "Sysinfo",
      "VMGenID", "Sga", "Monitor", "PM", "Boot", "IOMMU", "GlobalController",
      "Hub", "Filesystem", "Smartcard", "Parallels", "Channels", "Console",
      "Input", "Audio", "Graphics", "Video", "Sound", "Watchdog", "Redirdev",
      "Memballoon", "RNG", "NVRAM", "Sec", "SeccompSandbox", "Vsock" }

DiskDefs ==
    { [FullDef EXCEPT !.disks = << VirtioDisk(c) >>] : c \in Chains }
    \cup { [FullDef EXCEPT !.disks = << dk >>, !.machine = m] :
             m \in { "pc", "q35" },
             dk \in { Disk("fdc0-0-0", "fdc", "file", << Layer({}) >>,
                           DriveInfo(0, 0)),
                      [VirtioDisk(<< Layer({"tls"}) >>)
                          EXCEPT !.copy_on_read = TRUE],
                      [VirtioDisk(<< Layer({}) >>) EXCEPT !.transientShared = TRUE],
                      [VirtioDisk(<< Layer({}) >>) EXCEPT !.srcBad = TRUE],
                      Disk("usb-disk0", "usb", "file", << Layer({}) >>,
                           UsbInfo(0, 1)),
                      Disk("xvda", "xen", "file", << Layer({}) >>, NoInfo),
                      [VirtioDisk(<< Layer({}) >>)
                          EXCEPT !.model = "virtio-non-transitional"] } }

NetDefs ==
    { [FullDef EXCEPT !.nets = << Net("net0", t, q, m) >>] :
          t \in { "bridge", "vhostuser", "vdpa", "user", "hostdev" },
          q \in 0..MaxQueues,
          m \in { "virtio", "e1000" } }
    \cup { [FullDef EXCEPT !.nets = << Net("net0", "vhostuser", 0, "virtio"),
                                       Net("net1", "bridge", 1, "virtio") >>],
           [FullDef EXCEPT !.nets = << >>] }

(* Boot order and interfaces: an interface of type hostdev comes with the  *)
(* PCI host device that backs it                                            *)
NetAt(alias, type, slot) ==
    [Net(alias, type, 0, "virtio") EXCEPT !.info = PciInfo(0, slot)]

Unassigned == [NoInfo EXCEPT !.type = "unassigned"]

BootDefs ==
    { [BaseDef EXCEPT !.bootDevs = bd, !.nets = dv[1], !.hostdevs = dv[2]] :
          bd \in { << "hd", "network" >>, << "network" >>, << "hd" >> },
          dv \in { << << NetAt("net0", "bridge", 3) >>, << >> >>,
                   << << NetAt("net0", "hostdev", 3) >>,
                      << NetHostdev("net0", PciInfo(0, 3)) >> >>,
                   << << NetAt("net0", "hostdev", 3) >>,
                      << NetHostdev("net0", Unassigned) >> >>,
                   << << NetAt("net0", "bridge", 3), NetAt("net1", "hostdev", 5) >>,
                      << NetHostdev("net1", PciInfo(0, 5)) >> >>,
                   << << NetAt("net0", "hostdev", 3), NetAt("net1", "user", 5) >>,
                      << NetHostdev("net0", PciInfo(0, 3)) >> >>,
                   << << NetAt("net0", "hostdev", 3), NetAt("net1", "hostdev", 5) >>,
                      << NetHostdev("net0", Unassigned),
                         NetHostdev("net1", PciInfo(0, 5)) >> >>,
                   << << NetAt("net0", "hostdev", 3), NetAt("net1", "hostdev", 5) >>,
                      << NetHostdev("net0", PciInfo(0, 3)),
                         NetHostdev("net1", PciInfo(0, 5)) >> >>,
                   << << NetAt("net0", "user", 3) >>,
                      << Hostdev("hostdev0", "pci", "", PciInfo(0, 8)) >> >> } }
    \cup { [BaseDef EXCEPT !.nets = << [NetAt("net0", "user", 3)
                                           EXCEPT !.bootIndex = 1] >>],
           [BaseDef EXCEPT !.nets = << NetAt("net0", "hostdev", 3) >>,
                           !.hostdevs = << [NetHostdev("net0", PciInfo(0, 3))
                                               EXCEPT !.bootIndex = 2] >>] }

DeviceDefs ==
    { [FullDef EXCEPT !.chardevs = << Serial("serial0", src) >>] :
          src \in { ChrSource("pty"),
                    [ChrSource("file") EXCEPT !.logfile = TRUE],
                    [ChrSource("tcp") EXCEPT !.haveTLS = TRUE, !.secinfo = TRUE],
                    ChrSource("unix"), ChrSource("nmdm") } }
    \cup { [FullDef EXCEPT !.tpms = << t >>] :
             t \in { Tpm("emulator", "tpm-crb"), Tpm("passthrough", "tpm-tis"),
                     Tpm("emulator", "spapr-tpm-proxy"),
                     [Tpm("emulator", "tpm-tis") EXCEPT !.info = PciInfo(MaxBus, 1)] } }
    \cup { [FullDef EXCEPT !.shmems = sh] :
             sh \in { << Shmem("ivshmem-plain", FALSE) >>,
                      << Shmem("ivshmem-doorbell", TRUE) >>,
                      << Shmem("ivshmem", TRUE) >>,
                      << Shmem("ivshmem", FALSE) >>,
                      << [Shmem("ivshmem-plain", FALSE) EXCEPT !.sizeOk = FALSE] >>,
                      << [Shmem("ivshmem-plain", FALSE) EXCEPT !.info = NoInfo] >>,
                      << >> } }
    \cup { [FullDef EXCEPT !.hostdevs = << h >>] :
             h \in { Hostdev("hostdev0", "usb", "", UsbInfo(0, 2)),
                     Hostdev("hostdev0", "scsi_host", "virtio-non-transitional",
                             PciInfo(0, 7)),
                     Hostdev("hostdev0", "pci", "",
                             [NoInfo EXCEPT !.type = "unassigned"]) } }

(* PCI bridges on bus 0, a device behind each bus up to MaxBus; a bridge     *)
(* may have no alias yet                                                     *)
ControllerDefs ==
    { [FullDef EXCEPT
         !.controllers = << PciRoot >>
             \o [i \in 1..n |-> Cont("pci", i, IF i = noalias THEN ""
                                               ELSE "pci." \o Dec(i),
                                     "pci-bridge", PciInfo(0, 10 + i))],
         !.disks = << [VirtioDisk(<< Layer({}) >>)
                          EXCEPT !.info = PciInfo(b, 1)] >>,
         !.hostdevs = << >>] :
          n \in 0..MaxBus, noalias \in 0..MaxBus, b \in 0..MaxBus }
    \cup { [FullDef EXCEPT !.controllers[1].alias = "ua-root", !.pciMultiBus = mb] :
             mb \in BOOLEAN }

MemDefs ==
    { [FullDef EXCEPT !.mem.access = ac, !.mem.hugepages = hp,
                      !.mem.source = so, !.mem.allocation = al,
                      !.cells = cs] :
          ac \in { "default", "shared" }, hp \in { "none", "default" },
          so \in { "none", "file", "memfd" }, al \in { "none", "immediate" },
          cs \in { <<>>, << Cell(1048576, "default", << "0-1" >>) >> } }

NumaCell == Cell(524288, "default", << "0-1" >>)

NumaDefs ==
    { [FullDef EXCEPT !.cells = cs, !.hmat = hm, !.numaDistances = di,
                      !.mem.source = so] :
          cs \in { << NumaCell >>,
                   << NumaCell, Cell(524288, "shared", <<>>) >>,
                   << [NumaCell EXCEPT !.tuned = TRUE],
                      Cell(524288, "default", << "2", "4-5" >>) >>,
                   << Cell(524288, "default", <<>>) >> },
          hm \in BOOLEAN, di \in BOOLEAN, so \in { "none", "memfd" } }

PanicDefs ==
    { [FullDef EXCEPT !.panics = ps] :
          ps \in { << Panic("isa", "isa", 1285) >>,
                   << Panic("isa", "pci", 0) >>,
                   << Panic("hyperv", "none", 0), Panic("isa", "none", 0) >>,
                   << Panic("isa", "isa", 1285), Panic("isa", "none", 0) >>,
                   << Panic("pseries", "none", 0) >>,
                   << Panic("isa", "none", 0), Panic("s390", "none", 0),
                      Panic("isa", "ccw", 0) >>,
                   << >> } }

VideoDefs ==
    { [FullDef EXCEPT !.videos = vs, !.bad = b] :
          vs \in { << Video("video0", "virtio", "vhostuser", PciInfo(0, 2)) >>,
                   << Video("video0", "vga", "default", PciInfo(0, 2)),
                      Video("video1", "virtio", "vhostuser", PciInfo(0, 9)) >>,
                   << Video("video0", "virtio", "vhostuser", PciInfo(0, 2)),
                      Video("video1", "virtio", "vhostuser", PciInfo(0, 9)) >>,
                   << Video("video0", "none", "default", NoInfo) >>,
                   << Video("video0", "qxl", "default", PciInfo(0, 2)) >> },
          b \in { "none", "Video" } }

NoMemRam == AllCaps \ { "QEMU_CAPS_OBJECT_MEMORY_RAM" }

NoMemBackends ==
    AllCaps \ { "QEMU_CAPS_OBJECT_MEMORY_RAM", "QEMU_CAPS_OBJECT_MEMORY_FILE",
                "QEMU_CAPS_OBJECT_MEMORY_MEMFD" }

NoNumaMem == AllCaps \ { "MachineNumaMemSupported" }

NumaCapSets ==
    { AllCaps, NoMemRam, NoMemBackends, NoNumaMem,
      NoMemBackends \ { "MachineNumaMemSupported" },
      NoMemRam \ { "QEMU_CAPS_OBJECT_QAPIFIED" } }

OtherDefs ==
    { [FullDef EXCEPT !.bad = b] : b \in BadBuilders }
    \cup { [FullDef EXCEPT !.clock = [offset |-> o, basis |-> ba,
                                      adjustment |-> adj, adjustment0 |-> 0,
                                      rtc |-> "none", timer |-> t]] :
             o \in { "utc", "localtime", "variable", "timezone" },
             ba \in { "utc", "localtime" }, adj \in { 0, -120 },
             t \in { "none", "platform", "pit-merge" } }
    \cup { [FullDef EXCEPT !.loader = l, !.sec = sc, !.machine = m,
                           !.virtType = vt] :
             l \in { "none", "rom", "pflash" }, sc \in { "none", "sev" },
             m \in { "pc", "q35" }, vt \in { "kvm", "xen" } }
    \cup { [FullDef EXCEPT !.graphics = g] :
             g \in { << "rdp" >>, << "vnc", "desktop" >>, << "last" >>,
                     << "sdl", "spice", "egl-headless" >>, << >> } }
    \cup { BaseDef, [BaseDef EXCEPT !.has = { "MemoryDevice", "VMGenID", "Sga",
                                             "IOMMU", "GlobalController", "Hub",
                                             "Smartcard", "Parallels",
                                             "Channels" }] }

NoBlockdev == AllCaps \ { "QEMU_CAPS_BLOCKDEV" }

NoVirtioCaps ==
    AllCaps \ { "QEMU_CAPS_VIRTIO_PCI_TRANSITIONAL",
                "QEMU_CAPS_VIRTIO_PCI_DISABLE_LEGACY", "QEMU_CAPS_BLOCKDEV" }

NoFdPass ==
    AllCaps \ { "QEMU_CAPS_CHARDEV_FD_PASS_COMMANDLINE", "QEMU_CAPS_OVERCOMMIT",
                "MachineDefaultRAMid", "QEMU_CAPS_BLOCKDEV" }

NoDefaultRAM == AllCaps \ { "MachineDefaultRAMid" }

NoMemFile ==
    AllCaps \ { "QEMU_CAPS_OBJECT_MEMORY_FILE", "QEMU_CAPS_OBJECT_SECRET" }

CapSets ==
    { AllCaps, NoBlockdev, NoVirtioCaps, NoFdPass, NoDefaultRAM, NoMemFile,
      AllCaps \ { "QEMU_CAPS_VIRTIO_PCI_TRANSITIONAL" } }

Standalone == [BaseArgs EXCEPT !.standalone = TRUE, !.logTimestamp = FALSE]

Managed ==
    [BaseArgs EXCEPT !.enableFips = TRUE, !.migrateURI = TRUE,
                     !.snapshot = TRUE, !.logManager = TRUE,
                     !.chardevStdioLogd = TRUE]

NoHugetlbfs == [BaseArgs EXCEPT !.hugetlbfs = FALSE]

ArgSets == { BaseArgs, Standalone, Managed, NoHugetlbfs }

(* a binary without -object secret *)
NoSecret == AllCaps \ { "QEMU_CAPS_OBJECT_SECRET" }

(* the passes explored: a definition, the capabilities of the binary, and   *)
(* the arguments and configuration of the call                              *)
Scenarios ==
    (DiskDefs \X { AllCaps, NoBlockdev } \X { BaseArgs })
    \cup (NetDefs \X { AllCaps, NoVirtioCaps } \X { BaseArgs, Standalone })
    \cup (DeviceDefs \X { AllCaps, NoFdPass } \X { BaseArgs, Managed })
    \cup (ControllerDefs \X { AllCaps } \X { BaseArgs })
    \cup (MemDefs \X { AllCaps, NoDefaultRAM, NoMemFile }
              \X { BaseArgs, NoHugetlbfs })
    \cup (OtherDefs \X { AllCaps } \X { BaseArgs })
    \cup (NumaDefs \X NumaCapSets \X { BaseArgs })
    \cup (PanicDefs \X { AllCaps, NoBlockdev } \X { BaseArgs })
    \cup (VideoDefs \X { AllCaps, NoVirtioCaps } \X { BaseArgs })
    \cup (BootDefs \X { AllCaps } \X { BaseArgs })
    \cup ({ BaseDef, FullDef } \X { NoMemRam } \X { BaseArgs })
    \cup ({ FullDef, BaseDef } \X CapSets \X ArgSets)
    \cup ({ BaseDef, [BaseDef EXCEPT !.bad = "MasterKey"], FullDef }
              \X { NoSecret } \X { BaseArgs })

Init ==
    /\ \E sc \in Scenarios :
          /\ def = sc[1]
          /\ caps = sc[2]
          /\ args = sc[3]
    /\ def0 = def
    /\ pc = "Validate"
    /\ cmd = <<>>
    /\ cmdFds = <<>>
    /\ openFds = {}
    /\ ret = "none"
    /\ err = NoErr
    /\ failed = {}
    /\ passFds = {}
    /\ bootHostdevNet = 0
    /\ nwfilterTeardown = <<>>
    /\ call = NoCall

Next ==
    \/ qemuBuildCommandLineValidate
    \/ qemuBuildNameCommandLine
    \/ qemuBuildCompatDeprecatedCommandLine
    \/ qemuBuildMasterKeyCommandLine
    \/ qemuBuildDBusVMStateCommandLine
    \/ qemuBuildManagedPRCommandLine
    \/ qemuBuildPflashBlockdev
    \/ qemuBuildMachine
    \/ qemuBuildTSEGCommandLine
    \/ qemuBuildCpuCommandLine
    \/ qemuBuildDomainLoaderCommandLine
    \/ qemuBuildMem
    \/ qemuBuildSmpCommandLine
    \/ qemuBuildIOThreadCommandLine
    \/ qemuBuildNuma
    \/ qemuBuildMemoryDeviceCommandLine
    \/ AddUuid
    \/ qemuBuildSmbiosCommandLine
    \/ qemuBuildSysinfoCommandLine
    \/ qemuBuildVMGenIDCommandLine
    \/ qemuBuildSgaCommandLine
    \/ qemuBuildMonitorCommandLine
    \/ qemuBuildClock
    \/ qemuBuildPMCommandLine
    \/ qemuBuildBootCommandLine
    \/ qemuBuildIOMMUCommandLine
    \/ qemuBuildGlobalControllerCommandLine
    \/ qemuBuildControllers
    \/ qemuBuildHubCommandLine
    \/ qemuBuildControllersByType
    \/ qemuBuildDisks
    \/ qemuBuildFilesystemCommandLine
    \/ qemuBuildNet
    \/ qemuBuildSmartcardCommandLine
    \/ qemuBuildSerial
    \/ qemuBuildParallelsCommandLine
    \/ qemuBuildChannelsCommandLine
    \/ qemuBuildConsoleCommandLine
    \/ qemuBuildTPMs
    \/ qemuBuildInputCommandLine
    \/ qemuBuildAudioCommandLine
    \/ qemuBuildGraphicsCommandLine
    \/ qemuBuildVideo
    \/ qemuBuildSoundCommandLine
    \/ qemuBuildWatchdogCommandLine
    \/ qemuBuildRedirdevCommandLine
    \/ qemuBuildHostdev
    \/ qemuBuildMemballoonCommandLine
    \/ qemuBuildRNGCommandLine
    \/ qemuBuildNVRAMCommandLine
    \/ qemuBuildVMCoreInfoCommandLine
    \/ qemuBuildSecCommandLine
    \/ AddLoadvm
    \/ qemuBuildSeccompSandboxCommandLine
    \/ qemuBuildPanicCommandLine
    \/ qemuBuildShmem
    \/ qemuBuildVsockCommandLine
    \/ qemuBuildCommandLineReturn

Spec == Init /\ [][Next]_vars

-----------------------------------------------------------------------------
(* Calls of the two helpers every device builder uses, on their own: the    *)
(* address text of a device and the name of a virtio device.                *)

AddressTypes ==
    { "none", "pci", "drive", "virtio-serial", "ccid", "usb", "spapr-vio",
      "virtio-s390", "ccw", "virtio-mmio", "isa", "dimm", "unassigned", "last" }

VirtioTransports == { "pci", "virtio-mmio", "ccw" }

Infos ==
    { [NoInfo EXCEPT !.type = t, !.bus = b, !.slot = sl, !.multi = mu] :
          t \in AddressTypes, b \in 0..MaxBus, sl \in { 0, 17 },
          mu \in { "absent", "on" } }

VirtioModels == { "virtio", "virtio-transitional", "virtio-non-transitional" }

DevTypes ==
    { "VIR_DOMAIN_DEVICE_DISK", "VIR_DOMAIN_DEVICE_NET",
      "VIR_DOMAIN_DEVICE_HOSTDEV", "VIR_DOMAIN_DEVICE_INPUT",
      "VIR_DOMAIN_DEVICE_CONTROLLER", "VIR_DOMAIN_DEVICE_SOUND" }

SubTypes(devtype) ==
    CASE devtype = "VIR_DOMAIN_DEVICE_HOSTDEV" -> { "scsi_host", "pci" }
      [] devtype = "VIR_DOMAIN_DEVICE_INPUT" -> { "passthrough", "tablet" }
      [] devtype = "VIR_DOMAIN_DEVICE_CONTROLLER" ->
             { "scsi", "virtio-serial", "usb" }
      [] OTHER -> { "" }

(* definitions with 0..MaxBus PCI bridges, one of them possibly not yet named *)
DevDefs ==
    { [BaseDef EXCEPT
         !.controllers = << PciRoot >>
             \o [i \in 1..n |-> Cont("pci", i, IF i = noalias THEN ""
                                               ELSE "pci." \o Dec(i),
                                     "pci-bridge", PciInfo(0, 10 + i))]] :
          n \in 0..MaxBus, noalias \in 0..MaxBus }
    \cup { [BaseDef EXCEPT !.controllers[1].alias = a, !.pciMultiBus = mb] :
             a \in { "", "ua-root" }, mb \in BOOLEAN }
    \cup { [BaseDef EXCEPT !.controllers = << >>] }

VirtioCapSets ==
    { {}, { "QEMU_CAPS_VIRTIO_PCI_TRANSITIONAL" },
      { "QEMU_CAPS_VIRTIO_PCI_DISABLE_LEGACY" },
      { "QEMU_CAPS_VIRTIO_PCI_TRANSITIONAL",
        "QEMU_CAPS_VIRTIO_PCI_DISABLE_LEGACY" } }

NoDev == [info |-> NoInfo, model |-> "", sub |-> ""]

InitDev ==
    /\ def \in DevDefs
    /\ def0 = def
    /\ caps \in VirtioCapSets
    /\ args = BaseArgs
    /\ pc = "helpers"
    /\ cmd = <<>>
    /\ cmdFds = <<>>
    /\ openFds = {}
    /\ ret = "none"
    /\ err = NoErr
    /\ failed = {}
    /\ passFds = {}
    /\ bootHostdevNet = 0
    /\ nwfilterTeardown = <<>>
    /\ call = NoCall

CallDeviceAddressStr ==
    /\ pc = "helpers"
    /\ \E info \in Infos :
          call' = [fn |-> "qemuBuildDeviceAddressStr", baseName |-> "",
                   devtype |-> "", dev |-> [NoDev EXCEPT !.info = info],
                   res |-> qemuBuildDeviceAddressStr(def, info)]
    /\ pc' = "returned"
    /\ UNCHANGED << def, def0, caps, args, cmd, cmdFds, openFds, ret, err,
                    failed, passFds, bootHostdevNet,
                    nwfilterTeardown >>

CallVirtioDevStr ==
    /\ pc = "helpers"
    /\ \E baseName \in { "virtio-blk", "virtio-net" }, devtype \in DevTypes,
          t \in AddressTypes, model \in VirtioModels :
          \E sub \in SubTypes(devtype) :
             LET dev == [info |-> [NoInfo EXCEPT !.type = t], model |-> model,
                         sub |-> sub]
             IN call' = [fn |-> "qemuBuildVirtioDevStr", baseName |-> baseName,
                         devtype |-> devtype, dev |-> dev,
                         res |-> qemuBuildVirtioDevStr(baseName, caps,
                                                       devtype, dev)]
    /\ pc' = "returned"
    /\ UNCHANGED << def, def0, caps, args, cmd, cmdFds, openFds, ret, err,
                    failed, passFds, bootHostdevNet,
                    nwfilterTeardown >>

NextDev == CallDeviceAddressStr \/ CallVirtioDevStr

SpecDev == InitDev /\ [][NextDev]_vars

-----------------------------------------------------------------------------
(* Audio backends.  A result holds the arguments and the environment        *)
(* variables added to the command.  A tristate is "absent", "on" or "off",  *)
(* a number or a string that is not set is 0 or "".                         *)

AudioRes(rc, e, argv, env) == [rc |-> rc, err |-> e, argv |-> argv, env |-> env]

Opt(cond, text) == IF cond THEN text ELSE ""

Env(cond, text) == IF cond THEN << text >> ELSE <<>>

qemuBuildAudioCommonArg(prefix, io) ==
    Opt(io.mixingEngine # "absent",
        "," \o prefix \o ".mixing-engine=" \o io.mixingEngine)
    \o Opt(io.fixedSettings # "absent",
           "," \o prefix \o ".fixed-settings=" \o io.fixedSettings)
    \o Opt(io.voices # 0, "," \o prefix \o ".voices=" \o Dec(io.voices))
    \o Opt(io.bufferLength # 0,
           "," \o prefix \o ".buffer-length=" \o Dec(io.bufferLength))
    \o Opt(io.fixedSettings # "absent" /\ io.frequency # 0,
           "," \o prefix \o ".frequency=" \o Dec(io.frequency))
    \o Opt(io.fixedSettings # "absent" /\ io.channels # 0,
           "," \o prefix \o ".channels=" \o Dec(io.channels))
    \o Opt(io.fixedSettings # "absent" /\ io.format # "",
           "," \o prefix \o ".format=" \o io.format)

qemuBuildAudioALSAArg(prefix, io) ==
    Opt(io.dev # "", "," \o prefix \o ".dev=" \o io.dev)

qemuBuildAudioCoreAudioArg(prefix, io) ==
    Opt(io.bufferCount # 0,
        "," \o prefix \o ".buffer-count=" \o Dec(io.bufferCount))

qemuBuildAudioJackArg(prefix, io) ==
    Opt(io.serverName # "", "," \o prefix \o ".server-name=" \o io.serverName)
    \o Opt(io.clientName # "",
           "," \o prefix \o ".client-name=" \o io.clientName)
    \o Opt(io.connectPorts # "",
           "," \o prefix \o ".connect-ports=" \o io.connectPorts)
    \o Opt(io.exactName # "absent",
           "," \o prefix \o ".exact-name=" \o io.exactName)

qemuBuildAudioOSSArg(prefix, io) ==
    Opt(io.dev # "", "," \o prefix \o ".dev=" \o io.dev)
    \o Opt(io.bufferCount # 0,
           "," \o prefix \o ".buffer-count=" \o Dec(io.bufferCount))
    \o Opt(io.tryPoll # "absent",
           "," \o prefix \o ".try-poll=" \o io.tryPoll)

qemuBuildAudioPulseAudioArg(prefix, io) ==
    Opt(io.name # "", "," \o prefix \o ".name=" \o io.name)
    \o Opt(io.streamName # "",
           "," \o prefix \o ".stream-name=" \o io.streamName)
    \o Opt(io.latency # 0, "," \o prefix \o ".latency=" \o Dec(io.latency))

qemuBuildAudioSDLArg(prefix, io) ==
    Opt(io.bufferCount # 0,
        "," \o prefix \o ".buffer-count=" \o Dec(io.bufferCount))

(* -audiodev and its value; "-audiodev" is added before anything can fail *)
qemuBuildAudioCommandLineArg(audio) ==
    LET head == "id=audio" \o Dec(audio.id) \o ",driver=" \o audio.type
                  \o Opt(audio.timerPeriod # 0,
                         ",timer-period=" \o Dec(audio.timerPeriod))
                  \o qemuBuildAudioCommonArg("in", audio.input)
                  \o qemuBuildAudioCommonArg("out", audio.output)
        Both(F(_, _)) == F("in", audio.input) \o F("out", audio.output)
        Done(text, env) ==
            AudioRes(0, NoErr, << "-audiodev", head \o text >>, env)
    IN CASE audio.type \in { "none", "spice" } -> Done("", <<>>)
         [] audio.type = "alsa" -> Done(Both(qemuBuildAudioALSAArg), <<>>)
         [] audio.type = "coreaudio" ->
              Done(Both(qemuBuildAudioCoreAudioArg), <<>>)
         [] audio.type = "jack" -> Done(Both(qemuBuildAudioJackArg), <<>>)
         [] audio.type = "oss" ->
              Done(Both(qemuBuildAudioOSSArg)
                     \o Opt(audio.tryMMap # "absent",
                            ",try-mmap=" \o audio.tryMMap)
                     \o Opt(audio.exclusive # "absent",
                            ",exclusive=" \o audio.exclusive)
                     \o Opt(audio.dspPolicySet,
                            ",dsp-policy=" \o Dec(audio.dspPolicy)),
                   <<>>)
         [] audio.type = "pa" ->
              Done(Both(qemuBuildAudioPulseAudioArg)
                     \o Opt(audio.serverName # "",
                            ",server=" \o audio.serverName),
                   <<>>)
         [] audio.type = "sdl" ->
              Done(Both(qemuBuildAudioSDLArg),
                   Env(audio.sdlDriver # "",
                       "SDL_AUDIODRIVER=" \o audio.sdlDriver))
         [] audio.type = "wav" ->
              Done(Opt(audio.path # "", ",path=" \o audio.path), <<>>)
         [] OTHER ->
              AudioRes(-1, Err("VIR_ERR_INTERNAL_ERROR",
                               "Unexpected enum value " \o audio.type
                                   \o " for virDomainAudioType"),
                       << "-audiodev" >>, <<>>)

RECURSIVE AudioArgsFrom(_, _)
AudioArgsFrom(audios, i) ==
    IF i > Len(audios) THEN AudioRes(0, NoErr, <<>>, <<>>)
    ELSE LET one == qemuBuildAudioCommandLineArg(audios[i]) IN
         IF one.rc < 0 THEN one
         ELSE LET rest == AudioArgsFrom(audios, i + 1) IN
              AudioRes(rest.rc, rest.err, one.argv \o rest.argv,
                       one.env \o rest.env)

qemuBuildAudioCommandLineArgs(d) == AudioArgsFrom(d.audios, 1)

qemuBuildAudioCommonEnv(prefix, io) ==
    Env(io.fixedSettings # "absent",
        prefix \o "FIXED_SETTINGS=" \o io.fixedSettings)
    \o Env(io.voices # 0, prefix \o "VOICES=" \o Dec(io.voices))
    \o Env(io.fixedSettings # "absent" /\ io.frequency # 0,
           prefix \o "FIXED_FREQ=" \o Dec(io.frequency))
    \o Env(io.fixedSettings # "absent" /\ io.channels # 0,
           prefix \o "FIXED_CHANNELS=" \o Dec(io.channels))
    \o Env(io.fixedSettings # "absent" /\ io.format # "",
           prefix \o "FIXED_FMT=" \o io.format)

qemuBuildAudioALSAEnv(prefix, io) ==
    Env(io.dev # "", prefix \o "DEV=" \o io.dev)

qemuBuildAudioCoreAudioEnv(audio) ==
    Env(audio.output.bufferCount # 0,
        "QEMU_COREAUDIO_BUFFER_COUNT=" \o Dec(audio.output.bufferCount))
    \o Env(audio.output.bufferLength # 0,
           "QEMU_COREAUDIO_BUFFER_SIZE=" \o Dec(audio.output.bufferLength))

qemuBuildAudioOSSEnv(prefix, prefix2, io) ==
    Env(io.dev # "", prefix \o "DEV=" \o io.dev)
    \o Env(io.tryPoll # "absent", prefix2 \o "TRY_POLL=" \o io.tryPoll)

(* the last pair is added under the name "QEMU_PA_SERVER=%s" as written *)
qemuBuildAudioPulseAudioEnv(audio) ==
    Env(audio.input.name # "", "QEMU_PA_SOURCE=" \o audio.input.name)
    \o Env(audio.output.name # "", "QEMU_PA_SINK=" \o audio.output.name)
    \o Env(audio.input.bufferLength # 0,
           "QEMU_PA_SAMPLES=" \o Dec(audio.input.bufferLength))
    \o Env(audio.serverName # "",
           "QEMU_PA_SERVER=%s=" \o audio.serverName)

qemuBuildAudioCommandLineEnv(d) ==
    IF Len(d.audios) # 1 THEN AudioRes(0, NoErr, <<>>, <<>>)
    ELSE
    LET audio == d.audios[1]
        head == << "QEMU_AUDIO_DRV=" \o audio.type >>
                  \o Env(audio.timerPeriod # 0,
                         "QEMU_AUDIO_TIMER_PERIOD=" \o Dec(audio.timerPeriod))
                  \o qemuBuildAudioCommonEnv("QEMU_AUDIO_ADC_", audio.input)
                  \o qemuBuildAudioCommonEnv("QEMU_AUDIO_DAC_", audio.output)
        Done(env) == AudioRes(0, NoErr, <<>>, head \o env)
    IN CASE audio.type \in { "none", "jack", "spice" } -> Done(<<>>)
         [] audio.type = "alsa" ->
              Done(qemuBuildAudioALSAEnv("QEMU_AUDIO_ADC_", audio.input)
                     \o qemuBuildAudioALSAEnv("QEMU_AUDIO_DAC_", audio.output))
         [] audio.type = "coreaudio" -> Done(qemuBuildAudioCoreAudioEnv(audio))
         [] audio.type = "oss" ->
              Done(qemuBuildAudioOSSEnv("QEMU_OSS_ADC_", "QEMU_AUDIO_ADC_",
                                        audio.input)
                     \o qemuBuildAudioOSSEnv("QEMU_OSS_DAC_", "QEMU_AUDIO_DAC_",
                                             audio.output)
                     \o Env(audio.input.bufferCount # 0,
                            "QEMU_OSS_NFRAGS=" \o Dec(audio.input.bufferCount))
                     \o Env(audio.tryMMap # "absent",
                            "QEMU_OSS_MMAP=" \o audio.tryMMap)
                     \o Env(audio.exclusive # "absent",
                            "QEMU_OSS_EXCLUSIVE=" \o audio.exclusive)
                     \o Env(audio.dspPolicySet,
                            "QEMU_OSS_POLICY=" \o Dec(audio.dspPolicy)))
         [] audio.type = "pa" -> Done(qemuBuildAudioPulseAudioEnv(audio))
         [] audio.type = "sdl" ->
              Done(Env(audio.output.bufferLength # 0,
                       "QEMU_SDL_SAMPLES=" \o Dec(audio.output.bufferLength))
                     \o Env(audio.sdlDriver # "",
                            "SDL_AUDIODRIVER=" \o audio.sdlDriver))
         [] audio.type = "wav" ->
              Done(Env(audio.path # "", "QEMU_WAV_PATH=" \o audio.path))
         [] OTHER ->
              AudioRes(-1, Err("VIR_ERR_INTERNAL_ERROR",
                               "Unexpected enum value " \o audio.type
                                   \o " for virDomainAudioType"),
                       <<>>, head)

(* a variant that writes the audio backends both ways *)
AudioCommandLineBothWays(d, qemuCaps) ==
    LET a == qemuBuildAudioCommandLineArgs(d)
        e == qemuBuildAudioCommandLineEnv(d)
    IN IF a.rc < 0 THEN a
       ELSE AudioRes(e.rc, e.err, a.argv, a.env \o e.env)

qemuBuildAudioCommandLineFromCaps(d, qemuCaps) ==
    IF "QEMU_CAPS_AUDIODEV" \in qemuCaps
    THEN qemuBuildAudioCommandLineArgs(d)
    ELSE qemuBuildAudioCommandLineEnv(d)

(* Builders of flat option text that interpolate free text.                  *)

(* qemuAliasFromHostdev: the address type and the alias of the device *)
qemuAliasFromHostdev(dev) == dev.info.type \o "-" \o dev.alias

(* whether an iSCSI source is written from its properties *)
qemuDiskSourceNeedsProps(src, qemuCaps) ==
    src.protocol = "iscsi" /\ "QEMU_CAPS_ISCSI_PASSWORD_SECRET" \in qemuCaps

(* the source's properties wrapped in "file", with dotted keys as           *)
(* virQEMUBuildDriveCommandlineFromJSON writes them                         *)
qemuDiskSourceGetProps(src) ==
    << Pair("file.driver", JStr("iscsi")),
       Pair("file.portal", JStr(src.portal)),
       Pair("file.target", JStr(src.target)) >>

virQEMUBuildDriveCommandlineFromJSON(srcprops) ==
    virQEMUBuildCommandLineJSON(srcprops, "")

qemuBuildSCSIiSCSIHostdevDrvStr(dev, qemuCaps) ==
    IF qemuDiskSourceNeedsProps(dev.src, qemuCaps)
    THEN virQEMUBuildDriveCommandlineFromJSON(qemuDiskSourceGetProps(dev.src))
             \o ",if=none,format=raw"
    ELSE "file=" \o virQEMUBuildBufferEscapeComma(dev.src.netsource)
             \o ",if=none,format=raw"

qemuBuildSCSIHostdevDrvStr(dev, qemuCaps) ==
    Str((IF dev.src.protocol = "iscsi"
         THEN qemuBuildSCSIiSCSIHostdevDrvStr(dev, qemuCaps)
         ELSE "file=" \o dev.src.path \o ",if=none,format=raw")
            \o ",id=" \o qemuAliasFromHostdev(dev)
            \o (IF dev.readonly THEN ",readonly=on" ELSE ""),
        {})

(* the free text qemuBuildSCSIHostdevDrvStr was given, by the key it is     *)
(* written under                                                            *)
SCSIHostdevFreeText(dev, qemuCaps) ==
    IF dev.src.protocol # "iscsi" THEN { << "file", dev.src.path >> }
    ELSE IF qemuDiskSourceNeedsProps(dev.src, qemuCaps)
    THEN { << "file.portal", dev.src.portal >>,
           << "file.target", dev.src.target >> }
    ELSE { << "file", dev.src.netsource >> }

(* qemuVirCommandGetDevSet: the set a passed descriptor is reached by *)
qemuVirCommandGetDevSet(idx) == "/dev/fdset/" \o Dec(idx)

(* the texts of qemuBuildTPMBackendStr: the value of -tpmdev in buf and,    *)
(* for the emulator, the value of -chardev in *chardev; the descriptors of  *)
(* the passthrough device have the indexes tpmidx and tpmidx + 1            *)
qemuBuildTPMBackendStrText(tpm, tpmidx) ==
    LET head == tpm.type \o ",id=tpm-" \o tpm.alias IN
    CASE tpm.type = "passthrough" ->
           [rc |-> 0,
            buf |-> head
                \o ",path="
                \o virQEMUBuildBufferEscapeComma(qemuVirCommandGetDevSet(tpmidx))
                \o ",cancel-path="
                \o virQEMUBuildBufferEscapeComma(
                       qemuVirCommandGetDevSet(tpmidx + 1)),
            chardev |-> ""]
      [] tpm.type = "emulator" ->
           [rc |-> 0,
            buf |-> head \o ",chardev=chrtpm",
            chardev |-> "socket,id=chrtpm,path=" \o tpm.path]
      [] OTHER -> [rc |-> -1, buf |-> "", chardev |-> ""]

(* The emitters and conversions on their own: one call of one function on   *)
(* an input drawn from a bounded set.                                       *)

TreeStrings == { "/dev/shm/a", "/tmp/a,b", ",x,", "p\"q\\r", "k=v" }

TreeHeads ==
    { << Pair("qom-type", JStr("memory-backend-file")), Pair("id", JStr("ram")) >>,
      << Pair("id", JStr("ram")), Pair("qom-type", JStr("secret")) >>,
      << Pair("qom-type", JStr("memory-backend-file")) >>,
      << Pair("id", JStr("ram")) >>,
      << >>,
      << Pair("qom-type", JNum(U64(7))), Pair("id", JStr("ram")) >>,
      << Pair("qom-type", JStr("secret")), Pair("id", JBool(TRUE)) >> }

Optional(pairs) == { <<>> } \cup { << p >> : p \in pairs }

Trees ==
    { head \o path \o size \o share \o nodes :
        head \in TreeHeads,
        path \in Optional({ Pair("mem-path", JStr(s)) : s \in TreeStrings }),
        size \in Optional({ Pair("size", JNum(U64Mul1024(U64(n)))) :
                               n \in { 0, 2097152 } }),
        share \in Optional({ Pair("share", JBool(b)) : b \in BOOLEAN }),
        nodes \in Optional({ Pair("host-nodes", JArr(a)) :
                                a \in { << 0 >>, << 0, 2 >> } }) }

EmitCapSets ==
    SUBSET { "QEMU_CAPS_OBJECT_QAPIFIED", "QEMU_CAPS_ISCSI_PASSWORD_SECRET" }

FreeTexts == { "/dev/sg3", "/dev/sg,3", "a,,b", ",", "" }

SCSIHostdevs ==
    { [alias |-> "hostdev0", info |-> [type |-> "drive"], readonly |-> ro,
       src |-> [protocol |-> "none", path |-> t, netsource |-> "",
                portal |-> "", target |-> ""]] :
        ro \in BOOLEAN, t \in FreeTexts }
    \cup
    { [alias |-> "hostdev0", info |-> [type |-> "drive"], readonly |-> ro,
       src |-> [protocol |-> "iscsi", path |-> "",
                netsource |-> "iscsi://example.org:3260/" \o t \o "/0",
                portal |-> "example.org:3260", target |-> t]] :
        ro \in BOOLEAN, t \in FreeTexts }

TPMs ==
    { [type |-> "passthrough", alias |-> "tpm0", path |-> t] : t \in FreeTexts }
    \cup { [type |-> "emulator", alias |-> "tpm0", path |-> t] : t \in FreeTexts }

InitEmit ==
    /\ def = BaseDef
    /\ def0 = def
    /\ caps \in EmitCapSets
    /\ args = BaseArgs
    /\ pc = "helpers"
    /\ cmd = <<>>
    /\ cmdFds = <<>>
    /\ openFds = {}
    /\ ret = "none"
    /\ err = NoErr
    /\ failed = {}
    /\ passFds = {}
    /\ bootHostdevNet = 0
    /\ nwfilterTeardown = <<>>
    /\ call = NoCall

CallObjectCommandlineFromJSON ==
    /\ pc = "helpers"
    /\ \E tree \in Trees :
          LET props == [null |-> FALSE, qomType |-> "", id |-> "", refs |-> {},
                        tree |-> tree]
          IN call' = [fn |-> "qemuBuildObjectCommandlineFromJSON",
                      props |-> props,
                      res |-> qemuBuildObjectCommandlineFromJSON(props, caps)]
    /\ pc' = "returned"
    /\ UNCHANGED << def, def0, caps, args, cmd, cmdFds, openFds, ret, err,
                    failed, passFds, bootHostdevNet,
                    nwfilterTeardown >>

CallSCSIHostdevDrvStr ==
    /\ pc = "helpers"
    /\ \E dev \in SCSIHostdevs :
          call' = [fn |-> "qemuBuildSCSIHostdevDrvStr",
                   free |-> SCSIHostdevFreeText(dev, caps),
                   escaped |-> dev.src.protocol = "iscsi",
                   texts |-> << qemuBuildSCSIHostdevDrvStr(dev, caps).text >>]
    /\ pc' = "returned"
    /\ UNCHANGED << def, def0, caps, args, cmd, cmdFds, openFds, ret, err,
                    failed, passFds, bootHostdevNet,
                    nwfilterTeardown >>

CallTPMBackendStr ==
    /\ pc = "helpers"
    /\ \E tpm \in TPMs, tpmidx \in 0..1 :
          LET be == qemuBuildTPMBackendStrText(tpm, tpmidx) IN
          call' = [fn |-> "qemuBuildTPMBackendStr",
                   escaped |-> tpm.type = "passthrough",
                   free |-> IF tpm.type = "emulator"
                            THEN { << "path", tpm.path >> }
                            ELSE { << "path", qemuVirCommandGetDevSet(tpmidx) >>,
                                   << "cancel-path",
                                      qemuVirCommandGetDevSet(tpmidx + 1) >> },
                   texts |-> << be.buf, be.chardev >>]
    /\ pc' = "returned"
    /\ UNCHANGED << def, def0, caps, args, cmd, cmdFds, openFds, ret, err,
                    failed, passFds, bootHostdevNet,
                    nwfilterTeardown >>

NextEmit ==
    \/ CallObjectCommandlineFromJSON
    \/ CallSCSIHostdevDrvStr
    \/ CallTPMBackendStr

SpecEmit == InitEmit /\ [][NextEmit]_vars

-----------------------------------------------------------------------------
(* Sizes: one call of a builder that converts a size given in KiB.           *)

VideoCaps ==
    { "QEMU_CAPS_QXL_VRAM64", "QEMU_CAPS_QXL_VGAMEM", "QEMU_CAPS_QXL_MAX_OUTPUTS",
      "QEMU_CAPS_VIRTIO_GPU_VIRGL", "QEMU_CAPS_VIRTIO_GPU_MAX_OUTPUTS",
      "QEMU_CAPS_VGA_VGAMEM", "QEMU_CAPS_VMWARE_SVGA_VGAMEM",
      "QEMU_CAPS_VIRTIO_VGA_GL", "QEMU_CAPS_VIRTIO_GPU_GL_PCI" }

SizeCapSets ==
    { AllCaps \cup VideoCaps, AllCaps }
        \cup { AllCaps \cup (VideoCaps \ { c }) : c \in VideoCaps }

(* ram, vram, vram64, vgamem in KiB *)
VideoSizes ==
    { << 0, 0, 0, 0 >>,
      << 65536, 65536, 0, 16384 >>,
      << 131072, 65536, 1048576, 65536 >>,
      << 4194304, 65536, 0, 16384 >>,
      << 65536, 8388608, 2097152, 16384 >> }

Videos ==
    { [type |-> t, backend |-> be, primary |-> pr, supportsVga |-> TRUE,
       accel |-> a3 # "none", accel3d |-> IF a3 = "none" THEN "absent" ELSE a3,
       ram |-> sz[1], vram |-> sz[2], vram64 |-> sz[3], vgamem |-> sz[4],
       heads |-> h, resX |-> h * 640, resY |-> h * 400,
       alias |-> "video0", info |-> PciInfo(0, 2), model |-> "virtio",
       sub |-> "", virtio |-> vo] :
        t \in { "vga", "cirrus", "vmvga", "qxl", "virtio", "bochs", "ramfb",
                "none" },
        be \in { "default", "vhostuser" }, pr \in BOOLEAN,
        a3 \in { "none", "on", "off" }, sz \in VideoSizes, h \in { 0, 2 },
        vo \in { NoVirtioOptions,
                 [NoVirtioOptions EXCEPT !.null = FALSE, !.iommu = "on",
                                         !.packed = "off"] } }

(* size and sizeHigh of a memory device: 2 GiB, 4 TiB, 2^54 KiB *)
MemSizes == { << 0, 0 >>, << 2097152, 0 >>, << 1, 0 >>, << 0, 1 >>,
              << 2097152, 4194303 >>, << 0, 4194304 >> }

SizeMems ==
    { [NoMem EXCEPT !.size = sz[1], !.sizeHigh = sz[2], !.alias = "dimm0",
                    !.access = ac, !.alignsize = al] :
        sz \in MemSizes, ac \in { "default", "shared" }, al \in { 0, 2048 } }

InitSize ==
    /\ def = BaseDef
    /\ def0 = def
    /\ caps \in SizeCapSets
    /\ args = BaseArgs
    /\ pc = "helpers"
    /\ cmd = <<>>
    /\ cmdFds = <<>>
    /\ openFds = {}
    /\ ret = "none"
    /\ err = NoErr
    /\ failed = {}
    /\ passFds = {}
    /\ bootHostdevNet = 0
    /\ nwfilterTeardown = <<>>
    /\ call = NoCall

CallDeviceVideoStr ==
    /\ pc = "helpers"
    /\ \E video \in Videos :
          call' = [fn |-> "qemuBuildDeviceVideoStr", video |-> video,
                   res |-> qemuBuildDeviceVideoStr(def, video, caps)]
    /\ pc' = "returned"
    /\ UNCHANGED << def, def0, caps, args, cmd, cmdFds, openFds, ret, err,
                    failed, passFds, bootHostdevNet,
                    nwfilterTeardown >>

CallMemoryBackendProps ==
    /\ pc = "helpers"
    /\ \E mem \in SizeMems, force \in BOOLEAN :
          call' = [fn |-> "qemuBuildMemoryBackendProps", mem |-> mem,
                   res |-> qemuBuildMemoryBackendProps(mem.alias, args, caps,
                                                       def, mem, force, FALSE)]
    /\ pc' = "returned"
    /\ UNCHANGED << def, def0, caps, args, cmd, cmdFds, openFds, ret, err,
                    failed, passFds, bootHostdevNet,
                    nwfilterTeardown >>

NextSize ==
    \/ CallDeviceVideoStr
    \/ CallMemoryBackendProps

SpecSize == InitSize /\ [][NextSize]_vars

-----------------------------------------------------------------------------
(* Audio: one call of qemuBuildAudioCommandLine on a definition with up to   *)
(* MaxAudios audio backends.                                                 *)

MaxAudios == 2

NoIO ==
    [mixingEngine |-> "absent", fixedSettings |-> "absent", voices |-> 0,
     bufferLength |-> 0, frequency |-> 0, channels |-> 0, format |-> "",
     dev |-> "", bufferCount |-> 0, tryPoll |-> "absent", name |-> "",
     streamName |-> "", latency |-> 0, serverName |-> "", clientName |-> "",
     connectPorts |-> "", exactName |-> "absent"]

RichIO ==
    [mixingEngine |-> "on", fixedSettings |-> "on", voices |-> 2,
     bufferLength |-> 512, frequency |-> 44100, channels |-> 2,
     format |-> "s16", dev |-> "/dev/dsp0", bufferCount |-> 4,
     tryPoll |-> "off", name |-> "sink0", streamName |-> "guest",
     latency |-> 100, serverName |-> "jackd", clientName |-> "qemu",
     connectPorts |-> "system:playback", exactName |-> "on"]

AudioTypes == { "none", "alsa", "coreaudio", "jack", "oss", "pa", "sdl",
                "spice", "wav", "last" }

Audios ==
    { [id |-> 1, type |-> t, timerPeriod |-> 0, input |-> NoIO, output |-> NoIO,
       tryMMap |-> "absent", exclusive |-> "absent", dspPolicySet |-> FALSE,
       dspPolicy |-> 0, serverName |-> "", sdlDriver |-> "", path |-> ""] :
        t \in AudioTypes }
    \cup
    { [id |-> 1, type |-> t, timerPeriod |-> 40, input |-> RichIO,
       output |-> RichIO, tryMMap |-> "on", exclusive |-> "off",
       dspPolicySet |-> TRUE, dspPolicy |-> 3, serverName |-> "pa.example.org",
       sdlDriver |-> "pulseaudio", path |-> "/tmp/guest.wav"] :
        t \in AudioTypes }

AudioLists ==
    UNION { [1..n -> Audios] : n \in 0..MaxAudios }

AudioCapSets == { AllCaps, AllCaps \cup { "QEMU_CAPS_AUDIODEV" } }

InitAudio ==
    /\ \E audios \in AudioLists :
          def = [BaseDef EXCEPT !.audios =
                     [i \in 1..Len(audios) |-> [audios[i] EXCEPT !.id = i]]]
    /\ def0 = def
    /\ caps \in AudioCapSets
    /\ args = BaseArgs
    /\ pc = "helpers"
    /\ cmd = <<>>
    /\ cmdFds = <<>>
    /\ openFds = {}
    /\ ret = "none"
    /\ err = NoErr
    /\ failed = {}
    /\ passFds = {}
    /\ bootHostdevNet = 0
    /\ nwfilterTeardown = <<>>
    /\ call = NoCall

CallAudioCommandLine ==
    /\ pc = "helpers"
    /\ call' = [fn |-> "qemuBuildAudioCommandLine",
                res |-> qemuBuildAudioCommandLineFromCaps(def, caps)]
    /\ pc' = "returned"
    /\ UNCHANGED << def, def0, caps, args, cmd, cmdFds, openFds, ret, err,
                    failed, passFds, bootHostdevNet,
                    nwfilterTeardown >>

NextAudio == CallAudioCommandLine

SpecAudio == InitAudio /\ [][NextAudio]_vars

-----------------------------------------------------------------------------
(* One call of the disk frontend builder, or of the virtio device name      *)
(* builder, on one definition and one capability set.                        *)

(* the flags the two builders and their callees read *)
DiskFrontendFlags ==
    { "QEMU_CAPS_VIRTIO_BLK_SCSI",
      "QEMU_CAPS_VIRTIO_BLK_SCSI_DEFAULT_DISABLED", "QEMU_CAPS_BLOCKDEV",
      "QEMU_CAPS_DISK_WRITE_CACHE", "QEMU_CAPS_VIRTIO_PCI_DISABLE_LEGACY" }

DiskSettingFlags ==
    { "QEMU_CAPS_VIRTIO_IOEVENTFD", "QEMU_CAPS_VIRTIO_BLK_EVENT_IDX",
      "QEMU_CAPS_SCSI_DISK_DEVICE_ID", "QEMU_CAPS_DISK_SHARE_RW",
      "QEMU_CAPS_BLOCKIO", "QEMU_CAPS_USB_STORAGE_REMOVABLE",
      "QEMU_CAPS_STORAGE_WERROR", "QEMU_CAPS_VIRTIO_PCI_TRANSITIONAL" }

DiskCapSets ==
    { s \cup t \cup u : s \in SUBSET DiskFrontendFlags,
                        t \in { {}, DiskSettingFlags },
                        u \in { {}, { "QEMU_CAPS_AUDIODEV" } } }

FrontendDefs ==
    { [BaseDef EXCEPT !.controllers =
           << PciRoot, Cont("scsi", 0, "scsi0", "virtio-scsi", PciInfo(0, 3)),
              Cont("usb", 0, "usb", "piix3-uhci", PciInfo(0, 1)) >>],
      [BaseDef EXCEPT !.controllers = << >>] }

(* the disk of the example: virtio-blk at slot 5 of pci.0, nothing else set *)
PlainVirtioDisk ==
    [Disk("virtio-disk0", "virtio", "file", << Layer({}) >>, PciInfo(0, 5))
        EXCEPT !.nodeformat = "drive0"]

RichVirtioDisk ==
    [PlainVirtioDisk EXCEPT
        !.iothread = 2, !.ioeventfd = "on", !.event_idx = "off", !.queues = 4,
        !.virtio = [null |-> FALSE, iommu |-> "on", ats |-> "absent",
                    packed |-> "on"],
        !.shared = TRUE, !.bootindex = 1, !.logical_block_size = 512,
        !.physical_block_size = 4096, !.cachemode = "writethrough",
        !.serial = "WD 1234", !.error_policy = "enospace",
        !.rerror_policy = "report",
        !.geometry = [cylinders |-> 16, heads |-> 4, sectors |-> 63,
                      trans |-> "lba"]]

FrontendDisks ==
    { [dk EXCEPT !.device = dev, !.cachemode = cm] :
          dk \in { PlainVirtioDisk, RichVirtioDisk },
          dev \in { "disk", "lun" },
          cm \in { "default", "none", "directsync" } }
    \cup { [PlainVirtioDisk EXCEPT !.model = m, !.info = i] :
               m \in VirtioModels,
               i \in { PciInfo(0, 5), PciInfo(1, 5),
                       [PciInfo(0, 5) EXCEPT !.function = 1,
                                             !.multi = "on"],
                       [NoInfo EXCEPT !.type = "ccw"] } }
    \cup { [Disk("virtio-disk1", "virtio", "vhostuser", << Layer({}) >>,
                 PciInfo(0, 6)) EXCEPT !.queues = q] : q \in { 0, 2 } }
    \cup { [Disk("scsi0-0-0-0", "scsi", "file", << Layer({}) >>,
                 DriveInfo(0, 0))
               EXCEPT !.device = dev, !.serial = sn, !.wwn = w,
                      !.rotation_rate = r, !.vendor = v, !.product = v] :
               dev \in { "disk", "cdrom", "lun" }, sn \in { "", "SN 1" },
               w \in { "", "5000c50015ea71ad", "0x5000c50015ea71ad" },
               r \in { 0, 1 }, v \in { "", "ACME,Inc" } }
    \cup { [Disk("usb-disk0", "usb", "file", << Layer({}) >>, UsbInfo(0, 1))
               EXCEPT !.removable = rm, !.error_policy = ep] :
               rm \in { "absent", "on", "off" },
               ep \in { "default", "stop" } }
    \cup { Disk("ide0-0-0", "ide", "empty", << Layer({}) >>, DriveInfo(0, 0)),
           Disk("fdc0-0-0", "fdc", "file", << Layer({}) >>, DriveInfo(0, 0)),
           Disk("sata0-0-0", "sata", "file", << Layer({}) >>, DriveInfo(0, 0)),
           Disk("xvda", "xen", "file", << Layer({}) >>, NoInfo) }

InitDisk ==
    /\ def \in FrontendDefs
    /\ def0 = def
    /\ caps \in DiskCapSets
    /\ args = BaseArgs
    /\ pc = "helpers"
    /\ cmd = <<>>
    /\ cmdFds = <<>>
    /\ openFds = {}
    /\ ret = "none"
    /\ err = NoErr
    /\ failed = {}
    /\ passFds = {}
    /\ bootHostdevNet = 0
    /\ nwfilterTeardown = <<>>
    /\ call = NoCall

CallDiskDeviceStr ==
    /\ pc = "helpers"
    /\ \E disk \in FrontendDisks :
          call' = [fn |-> "qemuBuildDiskDeviceStr", baseName |-> "",
                   devtype |-> "VIR_DOMAIN_DEVICE_DISK", dev |-> disk,
                   res |-> qemuBuildDiskDeviceStr(def, disk, caps)]
    /\ pc' = "returned"
    /\ UNCHANGED << def, def0, caps, args, cmd, cmdFds, openFds, ret, err,
                    failed, passFds, bootHostdevNet,
                    nwfilterTeardown >>

NextDisk == CallDiskDeviceStr \/ CallVirtioDevStr

SpecDisk == InitDisk /\ [][NextDisk]_vars

-----------------------------------------------------------------------------
(* Two passes: when a pass has returned, the caller runs qemuBuildCommandLine *)
(* again with the same capabilities and arguments, on the definition as the  *)
(* first pass left it or on a copy of the definition as it was given.  What  *)
(* the first pass returned is kept in call.                                  *)

TwiceClocks ==
    { [offset |-> o, basis |-> ba, adjustment |-> adj, adjustment0 |-> 0,
       rtc |-> "none", timer |-> "none"] :
          o \in { "utc", "variable" }, ba \in { "utc", "localtime" },
          adj \in { 0, 60 } }

TwiceScenarios ==
    ({ [FullDef EXCEPT !.clock = c] : c \in TwiceClocks }
         \X { AllCaps, NoBlockdev } \X { BaseArgs })
    \cup ({ BaseDef } \X { AllCaps } \X { Standalone })
    \cup (VideoDefs \X { AllCaps } \X { BaseArgs })

InitTwice ==
    /\ \E sc \in TwiceScenarios :
          /\ def = sc[1]
          /\ caps = sc[2]
          /\ args = sc[3]
    /\ def0 = def
    /\ pc = "Validate"
    /\ cmd = <<>>
    /\ cmdFds = <<>>
    /\ openFds = {}
    /\ ret = "none"
    /\ err = NoErr
    /\ failed = {}
    /\ passFds = {}
    /\ bootHostdevNet = 0
    /\ nwfilterTeardown = <<>>
    /\ call = NoCall

SecondPass ==
    /\ pc = "done"
    /\ call = NoCall
    /\ call' = [fn |-> "qemuBuildCommandLine", ret |-> ret, cmd |-> cmd,
                err |-> err, clock |-> def.clock]
    /\ def' \in { def, def0 }
    /\ pc' = "Validate"
    /\ cmd' = <<>>
    /\ cmdFds' = <<>>
    /\ openFds' = {}
    /\ ret' = "none"
    /\ err' = NoErr
    /\ failed' = {}
    /\ passFds' = {}
    /\ bootHostdevNet' = 0
    /\ nwfilterTeardown' = <<>>
    /\ UNCHANGED << def0, caps, args >>

NextTwice == Next \/ SecondPass

SpecTwice == InitTwice /\ [][NextTwice]_vars

-----------------------------------------------------------------------------
(* Single calls of qemuBuildChrChardevStr: every kind of source, with and   *)
(* without descriptor passing, under every outcome of the host calls        *)

ChrSources ==
    { [ChrSource(t) EXCEPT !.listen = l, !.logfile = lf] :
          t \in { "unix", "file", "pty", "tcp" }, l \in BOOLEAN, lf \in BOOLEAN }

ChrFlagSets == { {}, { "TCP_NOWAIT" }, CdevFlags(FALSE), CdevFlags(TRUE) }

InitChr ==
    /\ def = BaseDef
    /\ def0 = def
    /\ caps \in { AllCaps, NoFdPass }
    /\ args \in { BaseArgs, [BaseArgs EXCEPT !.logManager = TRUE] }
    /\ pc = "helpers"
    /\ cmd = <<>>
    /\ cmdFds = <<>>
    /\ openFds = {}
    /\ ret = "none"
    /\ err = NoErr
    /\ failed = {}
    /\ passFds = {}
    /\ bootHostdevNet = 0
    /\ nwfilterTeardown = <<>>
    /\ call = NoCall

CallChrChardevStr ==
    /\ pc = "helpers"
    /\ \E dev \in ChrSources, cdevflags \in ChrFlagSets, h \in HostFailures :
          call' = [fn |-> "qemuBuildChrChardevStr", dev |-> dev,
                   cdevflags |-> cdevflags, h |-> h,
                   res |-> qemuBuildChrChardevStr(args.logManager, dev,
                                                  "serial0", caps, cdevflags, h)]
    /\ pc' = "returned"
    /\ UNCHANGED << def, def0, caps, args, cmd, cmdFds, openFds, ret, err,
                    failed, passFds, bootHostdevNet, nwfilterTeardown >>

NextChr == CallChrChardevStr

SpecChr == InitChr /\ [][NextChr]_vars

-----------------------------------------------------------------------------
(* Properties *)

Before(i) == 1..(i - 1)

(* the keys through which a fragment names the alias of another fragment *)
AliasKeys ==
    { "bus", "drive", "chardev", "netdev", "tpmdev", "memdev", "rng",
      "tls-creds" }

(* buses of the machine itself: no fragment introduces them *)
BuiltinBuses == { "pci.0", "pci", "pcie.0", "ide.0", "ide.1" }

(* a fragment introduces its id, and a controller the bus "<id>.0" *)
Introduces(frag, alias) ==
    frag.id # "" /\ (frag.id = alias \/ frag.id \o ".0" = alias)

DanglingAt(i) ==
    { r \in cmd[i].refs :
        /\ r[1] \in AliasKeys
        /\ r[2] \notin BuiltinBuses
        /\ ~ \E j \in Before(i) : Introduces(cmd[j], r[2]) }

(* C1: in the argument sequence that qemuBuildCommandLine returns, every    *)
(* alias a fragment references through bus=, drive=, chardev=, netdev=,     *)
(* tpmdev=, memdev=, rng= or tls-creds= is introduced as the id of a        *)
(* fragment at a strictly earlier position.                                 *)
C1_AliasIntroducedBeforeUse ==
    ret = "cmd" => \A i \in 1..Len(cmd) : DanglingAt(i) = {}

(* the same, leaving out the two references that are emitted ahead of the   *)
(* fragment they name (chardev= of a shared memory device with a server and *)
(* chardev=chrtpm of an emulated TPM) and memdev=ram-node<i> of a NUMA node *)
(* on a binary with no memory backend object at all, whose -object is empty *)
C1_OnlyShmemAndTPMAhead ==
    ret = "cmd" =>
        \A i \in 1..Len(cmd) :
            \A r \in DanglingAt(i) :
                \/ /\ r[1] = "chardev"
                   /\ cmd[i].cat \in { "shmem", "tpm" }
                   /\ \E j \in (i + 1)..Len(cmd) :
                         cmd[j].flag = "-chardev" /\ cmd[j].id = r[2]
                \/ /\ r[1] = "memdev"
                   /\ cmd[i].cat = "numa"
                   /\ caps \cap { "QEMU_CAPS_OBJECT_MEMORY_RAM",
                                  "QEMU_CAPS_OBJECT_MEMORY_FILE",
                                  "QEMU_CAPS_OBJECT_MEMORY_MEMFD" } = {}

C1_ShmemServerReturned ==
    /\ ret = "cmd"
    /\ \E i \in 1..Len(cmd) : cmd[i].cat = "shmem" /\ DanglingAt(i) # {}

(* C2: a builder that fails aborts the pass there and then:                 *)
(* qemuBuildCommandLine returns NULL and no argument sequence, whichever    *)
(* builder failed, the default memory backend builder included.             *)
C2_FailureAbortsThePass ==
    failed # {} => pc = "done" /\ ret = "NULL" /\ cmd = <<>>

(* C3: for one storage source attachment (one layer of one disk) the        *)
(* fragments come in the order reservation manager, auth secret, encryption *)
(* secret, cookie secret, TLS key secret, TLS credentials, backend          *)
(* (-drive, -chardev, -blockdev), and the -device of the disk comes after   *)
(* all of them.                                                             *)
AttachOrder ==
    << "prmgr", "authsecret", "encryptsecret", "httpcookiesecret",
       "tlsKeySecret", "tls", "backend", "device" >>

AttachRank ==
    [kind \in Range(AttachOrder) |->
        CHOOSE k \in 1..Len(AttachOrder) : AttachOrder[k] = kind]

(* a fragment of a storage source attachment or of the device it backs *)
AttachFragment(f) ==
    /\ f.dev # ""
    /\ f.kind \in DOMAIN AttachRank
    /\ f.cat \in { "storage", "firmware-pflash" }

SameAttachment(f, g) ==
    /\ f.dev = g.dev
    /\ g.cat = f.cat
    /\ (f.kind = "device" \/ g.kind = "device" \/ f.layer = g.layer)

C3_AttachmentOrder ==
    LET fs == SelectSeq(cmd, AttachFragment) IN
    \A j \in 1..Len(fs) :
        \A i \in 1..(j - 1) :
            SameAttachment(fs[i], fs[j]) =>
                AttachRank[fs[i].kind] <= AttachRank[fs[j].kind]

(* a returned command with a disk whose top layer needs all six objects *)
C3_FullAttachmentReturned ==
    /\ ret = "cmd"
    /\ \E dev \in { cmd[i].dev : i \in 1..Len(cmd) } :
          /\ { cmd[i].kind : i \in { k \in 1..Len(cmd) :
                                        /\ cmd[k].dev = dev
                                        /\ cmd[k].cat = "storage"
                                        /\ cmd[k].layer \in { 0, 1 } } }
                = Range(AttachOrder)
          /\ \E i \in 1..Len(cmd) : cmd[i].dev = dev /\ cmd[i].layer = MaxLayers

(* C4: the categories of fragments appear in one fixed order.               *)
Categories ==
    << "name", "compat", "master-key", "firmware-pflash", "machine", "cpu",
       "firmware-loader", "memory", "smp", "iothreads", "numa", "uuid",
       "smbios", "boot-clock-pm", "controllers", "storage", "filesystems",
       "network", "chardevs", "tpm", "input", "audio", "graphics-video",
       "sound", "watchdog", "redirdev", "hostdev", "balloon", "rng", "nvram",
       "vmcoreinfo", "launch-security", "snapshot-load", "sandbox", "panic",
       "shmem", "vsock" >>

(* the position of a category in the order the code follows: the pflash     *)
(* block nodes of the firmware before -machine, the loader options          *)
(* (-bios, -drive if=pflash) after the CPU and before the memory            *)
CodeRank ==
    [cat \in Range(Categories) |->
        CHOOSE k \in 1..Len(Categories) : Categories[k] = cat]

(* the position with firmware as one category ahead of the machine type *)
ListedRank ==
    [CodeRank EXCEPT !["firmware-loader"] = CodeRank["firmware-pflash"]]

Ranked(frag) == frag.cat \in DOMAIN CodeRank

(* the fragments that belong to a category of the list, in their order *)
RankedFragments == SelectSeq(cmd, Ranked)

(* C4 (as amended): no fragment of a later category precedes a fragment of  *)
(* an earlier one, in the order name, compat, master key, pflash block      *)
(* nodes, machine, CPU, firmware loader options, memory, SMP, I/O threads,  *)
(* NUMA, UUID, SMBIOS/sysinfo, clock/PM/boot, controllers, storage,         *)
(* filesystems, network, character devices, TPM, input, audio,              *)
(* graphics/video, sound, watchdog, redirected devices, host devices,       *)
(* balloon, RNG, NVRAM, vmcoreinfo, launch security, snapshot load,         *)
(* sandbox, panic, shared memory, vsock.                                    *)
C4_CategoryOrder ==
    LET fs == RankedFragments IN
    \A k \in 1..(Len(fs) - 1) : CodeRank[fs[k].cat] <= CodeRank[fs[k + 1].cat]

(* C4 (as stated): the same with firmware/pflash, as a whole, between the   *)
(* master key and the machine type.                                         *)
C4_ListedCategoryOrder ==
    LET fs == RankedFragments IN
    \A k \in 1..(Len(fs) - 1) :
        ListedRank[fs[k].cat] <= ListedRank[fs[k + 1].cat]

(* a returned command with pflash block nodes, devices of most categories   *)
(* and a vsock device                                                       *)
C4_ManyCategoriesReturned ==
    /\ ret = "cmd"
    /\ Cardinality({ cmd[i].cat : i \in 1..Len(cmd) } \cap Range(Categories))
          >= 30
    /\ \E i \in 1..Len(cmd) : cmd[i].cat = "firmware-pflash"

(* a returned command with loader options: they follow -machine and -cpu *)
C4_LoaderOptionsReturned ==
    /\ ret = "cmd"
    /\ \E i \in 1..Len(cmd) : cmd[i].cat = "firmware-loader"

(* C5: the backend fragments of one disk source follow one strategy: only   *)
(* -blockdev nodes, or one -drive, or one -chardev.                         *)
BackendsOf(dev) ==
    { i \in 1..Len(cmd) :
        cmd[i].dev = dev /\ cmd[i].kind = "backend" /\ cmd[i].cat = "storage" }

StorageBackend(f) == f.kind = "backend" /\ f.cat = "storage"

C5_OneStrategyPerSource ==
    LET bs == SelectSeq(cmd, StorageBackend) IN
    \A dev \in { bs[i].dev : i \in 1..Len(bs) } :
        LET own == { i \in 1..Len(bs) : bs[i].dev = dev }
            flags == { bs[i].flag : i \in own }
        IN /\ Cardinality(flags) <= 1
           /\ flags \subseteq { "-blockdev", "-drive", "-chardev" }
           /\ flags # { "-blockdev" } => Cardinality(own) <= 1

(* a returned command with a disk on -blockdev nodes and a vhost-user disk *)
C5_TwoStrategiesReturned ==
    /\ ret = "cmd"
    /\ \E d1, d2 \in { cmd[i].dev : i \in 1..Len(cmd) } :
          /\ Cardinality(BackendsOf(d1)) >= 2
          /\ \E i \in BackendsOf(d2) : cmd[i].flag = "-chardev"

(* C6: when the pass has failed, no descriptor it opened is still open:     *)
(* tap, vhost-net, vDPA, log file, UNIX socket, TPM, vhost-scsi.            *)
C6_NoDescriptorLeftOpen ==
    ret = "NULL" => openFds = {}

(* a pass that failed in the network step after opening tap descriptors,    *)
(* with descriptors of earlier steps already handed to the command          *)
C6_FailedWithDescriptors ==
    /\ ret = "NULL"
    /\ "Net" \in failed
    /\ Cardinality(passFds) >= 2

(* C7 (as amended): the pass writes the definition in these places only:    *)
(* the adjustment, the saved adjustment and the basis of a variable clock,  *)
(* the interface name of a vhost-user interface, and the descriptor stored  *)
(* with a vhost-user video device, which becomes -1 when it is handed to    *)
(* the command; everything else (addresses and aliases included) is as it   *)
(* was, whether the pass succeeds or fails.                                 *)
SameButClock(d, d0) ==
    /\ [d EXCEPT !.clock = d0.clock] = [d0 EXCEPT !.clock = d0.clock]
    /\ [d.clock EXCEPT !.adjustment = d0.clock.adjustment,
                       !.adjustment0 = d0.clock.adjustment0,
                       !.basis = d0.clock.basis] = d0.clock
    /\ (d.clock # d0.clock => d0.clock.offset = "variable")

AddressCall == pc = "returned" /\ call.fn = "qemuBuildDeviceAddressStr"

VirtioCall == pc = "returned" /\ call.fn = "qemuBuildVirtioDevStr"

(* the PCI controllers whose index is the bus *)
ControllersOfBus(bus) ==
    { i \in 1..Len(def.controllers) :
        def.controllers[i].type = "pci" /\ def.controllers[i].idx = bus }

NoUsableController(bus) ==
    \/ ControllersOfBus(bus) = {}
    \/ \E i \in ControllersOfBus(bus) :
          /\ \A j \in ControllersOfBus(bus) : i <= j
          /\ def.controllers[i].alias = ""

MessagesNamingBus(info) ==
    { m \o Dec(info.bus) \o " required for device at address "
        \o virPCIDeviceAddressAsString(info) :
        m \in { "Could not find PCI controller with index ",
                "Device alias was not set for PCI controller with index " } }

C8_MissingPCIControllerIsInternalError ==
    AddressCall /\ call.dev.info.type = "pci"
        /\ NoUsableController(call.dev.info.bus)
    => /\ call.res.rc < 0
       /\ call.res.text = ""
       /\ call.res.err.code = "VIR_ERR_INTERNAL_ERROR"
       /\ call.res.err.msg \in MessagesNamingBus(call.dev.info)

(* a call for a device on the last bus, which has no bridge *)
C8_NoControllerForLastBus ==
    /\ AddressCall
    /\ call.dev.info.type = "pci"
    /\ call.dev.info.bus = MaxBus
    /\ ControllersOfBus(MaxBus) = {}
    /\ call.res.rc < 0

(* a call for a device on a bus whose bridge has no alias *)
C8_ControllerWithoutAlias ==
    /\ AddressCall
    /\ call.dev.info.type = "pci"
    /\ ControllersOfBus(call.dev.info.bus) # {}
    /\ NoUsableController(call.dev.info.bus)
    /\ call.res.rc < 0

(* C9 (as stated): a device whose address kind is unknown, or is not one a  *)
(* device of its kind can have, fails with VIR_ERR_CONFIG_UNSUPPORTED; it   *)
(* is never accepted without address text.                                  *)
C9_BadAddressIsConfigUnsupported ==
    /\ VirtioCall /\ call.dev.info.type \notin VirtioTransports
       => call.res.rc < 0 /\ call.res.err.code = "VIR_ERR_CONFIG_UNSUPPORTED"
    /\ AddressCall /\ call.dev.info.type = "last"
       => call.res.rc < 0 /\ call.res.err.code = "VIR_ERR_CONFIG_UNSUPPORTED"

(* C9 (as amended): a virtio device whose address is not PCI, virtio-mmio   *)
(* or CCW fails with VIR_ERR_INTERNAL_ERROR: "Unexpected address type for   *)
(* '<base name>'" for the other known kinds, an enum range error for none,  *)
(* unassigned and out-of-range kinds.  VIR_ERR_CONFIG_UNSUPPORTED is        *)
(* reported for a (non-)transitional model on virtio-mmio or CCW.  The      *)
(* address builder fails (VIR_ERR_INTERNAL_ERROR) for the out-of-range      *)
(* kind only, and for the kinds none, drive, virtio-serial, ccid,           *)
(* virtio-s390, virtio-mmio and unassigned it succeeds with no address      *)
(* text.                                                                    *)
UnaddressedKinds ==
    { "none", "drive", "virtio-serial", "ccid", "virtio-s390", "virtio-mmio",
      "unassigned" }

C9_BadAddressIsInternalError ==
    /\ VirtioCall /\ call.dev.info.type \notin VirtioTransports
       => /\ call.res.rc < 0
          /\ call.res.text = ""
          /\ call.res.err.code = "VIR_ERR_INTERNAL_ERROR"
          /\ (call.dev.info.type \notin { "none", "unassigned", "last" }
                 => call.res.err.msg
                      = "Unexpected address type for '" \o call.baseName \o "'")
    /\ VirtioCall /\ call.dev.info.type \in { "virtio-mmio", "ccw" }
          /\ VirtioHasModel(call.devtype, call.dev)
          /\ call.dev.model \in { "virtio-transitional",
                                  "virtio-non-transitional" }
       => call.res.rc < 0 /\ call.res.err.code = "VIR_ERR_CONFIG_UNSUPPORTED"
    /\ AddressCall /\ call.dev.info.type = "last"
       => call.res.rc < 0 /\ call.res.err.code = "VIR_ERR_INTERNAL_ERROR"
    /\ AddressCall /\ call.dev.info.type \in UnaddressedKinds
       => call.res.rc = 0 /\ call.res.text = ""

(* a virtio device with a USB address *)
C9_VirtioOnUSB ==
    /\ VirtioCall
    /\ call.dev.info.type = "usb"
    /\ call.res.rc < 0

(* C10: a virtio-non-transitional model, when the binary has neither        *)
(* QEMU_CAPS_VIRTIO_PCI_TRANSITIONAL nor QEMU_CAPS_VIRTIO_PCI_DISABLE_LEGACY,*)
(* fails with VIR_ERR_CONFIG_UNSUPPORTED; no device name is returned.       *)
NonTransitionalRequest ==
    /\ VirtioCall
    /\ VirtioHasModel(call.devtype, call.dev)
    /\ call.dev.model = "virtio-non-transitional"
    /\ caps \cap { "QEMU_CAPS_VIRTIO_PCI_TRANSITIONAL",
                   "QEMU_CAPS_VIRTIO_PCI_DISABLE_LEGACY" } = {}

C10_NonTransitionalNeedsCapability ==
    NonTransitionalRequest =>
        /\ call.res.rc < 0
        /\ call.res.text = ""
        /\ (call.dev.info.type \in VirtioTransports
               => call.res.err.code = "VIR_ERR_CONFIG_UNSUPPORTED")

(* the request for a PCI device *)
C10_NonTransitionalOnPCI ==
    /\ NonTransitionalRequest
    /\ call.dev.info.type = "pci"
    /\ call.res.err.msg
          = "virtio non-transitional model not supported for this qemu"

(* C11: the structured-object emitter fails and produces no text for every  *)
(* property tree that has no string under "qom-type" or none under "id";    *)
(* what it does emit names both the type and the id of the tree.            *)
ObjectCall == pc = "returned" /\ call.fn = "qemuBuildObjectCommandlineFromJSON"

HasString(tree, key) ==
    \E i \in 1..Len(tree) : tree[i].key = key /\ tree[i].val.t = "string"

C11_ObjectWithoutTypeOrIdFails ==
    ObjectCall =>
        IF HasString(call.props.tree, "qom-type")
           /\ HasString(call.props.tree, "id")
        THEN call.res.rc = 0 /\ call.res.text # ""
        ELSE /\ call.res.rc < 0
             /\ call.res.text = ""
             /\ call.res.err.code = "VIR_ERR_INTERNAL_ERROR"

(* a tree with an id and further keys but no type, refused *)
C11_TreeWithoutTypeRefused ==
    /\ ObjectCall
    /\ ~HasString(call.props.tree, "qom-type")
    /\ HasString(call.props.tree, "id")
    /\ Len(call.props.tree) >= 3
    /\ call.res.rc < 0

(* Reading the two encodings back.  A pair is <<key, type, value>> with the *)
(* value in one spelling: booleans true/false, arrays as their elements.    *)

(* a piece of flat text with its doubled commas made single *)
RECURSIVE Undouble(_)
Undouble(piece) ==
    IF piece = "" THEN ""
    ELSE IF Len(piece) >= 2 /\ SubSeq(piece, 1, 2) = ",,"
    THEN "," \o Undouble(SubSeq(piece, 3, Len(piece)))
    ELSE SubSeq(piece, 1, 1) \o Undouble(SubSeq(piece, 2, Len(piece)))

(* the flat encoding: the pieces between the commas that are not doubled.   *)
(* Of a run of commas the pairs from the left are doubled commas, and a     *)
(* comma left over at the end of the run separates two pieces.              *)
SplitComma(text) ==
    LET n == Len(text)
        ch == [i \in 1..n |-> SubSeq(text, i, i)]
        RunStart(i) ==
            CHOOSE j \in 1..i : /\ \A k \in j..i : ch[k] = ","
                                /\ (j = 1 \/ ch[j - 1] # ",")
        Sep(i) == /\ ch[i] = ","
                  /\ (i = n \/ ch[i + 1] # ",")
                  /\ (i - RunStart(i)) % 2 = 0
        seps == { i \in 1..n : Sep(i) }
        Start(i) == i = 1 \/ (i - 1) \in seps
        starts == SelectSeq([i \in 1..(n + 1) |-> i], Start)
        End(a) == IF \E i \in seps : i >= a
                  THEN (CHOOSE i \in seps :
                           i >= a /\ \A k \in seps : k >= a => i <= k) - 1
                  ELSE n
    IN [k \in 1..Len(starts) |->
           Undouble(SubSeq(text, starts[k], End(starts[k])))]

(* the position of the first sep in text, or 0 *)
RECURSIVE Find(_, _, _)
Find(text, sep, i) ==
    IF i > Len(text) THEN 0
    ELSE IF SubSeq(text, i, i) = sep THEN i ELSE Find(text, sep, i + 1)

RECURSIVE Replace(_, _, _)
Replace(text, from, to) ==
    IF text = "" THEN ""
    ELSE LET c == SubSeq(text, 1, 1) IN
         (IF c = from THEN to ELSE c)
             \o Replace(SubSeq(text, 2, Len(text)), from, to)

KeyType(tree, key) ==
    IF \E k \in 1..Len(tree) : tree[k].key = key
    THEN LET i == CHOOSE k \in 1..Len(tree) : tree[k].key = key
         IN tree[i].val.t
    ELSE "unknown"

DecodeFlat(text, tree) ==
    LET toks == SplitComma(text)
        One(tok) ==
            LET eq == Find(tok, "=", 1)
                key == SubSeq(tok, 1, eq - 1)
                val == SubSeq(tok, eq + 1, Len(tok))
                type == KeyType(tree, key)
            IN << key, type,
                  CASE type = "boolean" ->
                         (IF val = "on" THEN "true"
                          ELSE IF val = "off" THEN "false" ELSE "?" \o val)
                    [] type = "array" -> Replace(val, ":", " ")
                    [] OTHER -> val >>
    IN { << "qom-type", "string", toks[1] >> }
           \cup { One(toks[i]) : i \in 2..Len(toks) }

(* the structured encoding: from position i, the text of a string up to its *)
(* closing quote, and the position after the quote                          *)
RECURSIVE JSONString(_, _, _)
JSONString(text, i, cur) ==
    LET c == SubSeq(text, i, i) IN
    IF c = "\"" THEN [s |-> cur, next |-> i + 1]
    ELSE IF c = "\\"
    THEN JSONString(text, i + 2, cur \o SubSeq(text, i + 1, i + 1))
    ELSE JSONString(text, i + 1, cur \o c)

(* a bare token: up to the next stop character *)
RECURSIVE JSONBare(_, _, _, _)
JSONBare(text, i, stops, cur) ==
    LET c == SubSeq(text, i, i) IN
    IF c \in stops THEN [s |-> cur, next |-> i]
    ELSE JSONBare(text, i + 1, stops, cur \o c)

(* the members of an object, from the quote that opens a key *)
RECURSIVE JSONMembers(_, _)
JSONMembers(text, i) ==
    IF SubSeq(text, i, i) # "\"" THEN {}
    ELSE LET key == JSONString(text, i + 1, "")
             c == SubSeq(text, key.next + 1, key.next + 1)
             val == CASE c = "\"" ->
                           LET v == JSONString(text, key.next + 2, "") IN
                           [type |-> "string", s |-> v.s, next |-> v.next]
                      [] c = "[" ->
                           LET v == JSONBare(text, key.next + 2, { "]" }, "") IN
                           [type |-> "array", s |-> Replace(v.s, ",", " "),
                            next |-> v.next + 1]
                      [] OTHER ->
                           LET v == JSONBare(text, key.next + 1,
                                             { ",", "}" }, "") IN
                           [type |-> IF v.s \in { "true", "false" }
                                     THEN "boolean" ELSE "number",
                            s |-> v.s, next |-> v.next]
         IN { << key.s, val.type, val.s >> }
                \cup (IF SubSeq(text, val.next, val.next) = ","
                      THEN JSONMembers(text, val.next + 1) ELSE {})

DecodeJSON(text) == JSONMembers(text, 2)

(* the pairs of the tree itself *)
TreePairs(tree) ==
    { << tree[i].key, tree[i].val.t,
         CASE tree[i].val.t = "string" -> tree[i].val.s
           [] tree[i].val.t = "number" -> U64Dec(tree[i].val.u)
           [] tree[i].val.t = "boolean" ->
                  (IF tree[i].val.b THEN "true" ELSE "false")
           [] OTHER -> Join([k \in 1..Len(tree[i].val.a) |->
                                Dec(tree[i].val.a[k])], " ") >> :
        i \in 1..Len(tree) }

FlatPieces(text) == Range(SplitComma(text))

TextCall ==
    pc = "returned"
    /\ call.fn \in { "qemuBuildSCSIHostdevDrvStr", "qemuBuildTPMBackendStr" }

(* C13: every free-text value a builder interpolates into a flat option     *)
(* text is recovered exactly by splitting the text at its single commas and *)
(* undoubling the doubled ones.                                             *)
C13_FreeTextRoundTrips ==
    TextCall =>
        \A kv \in call.free :
            \E i \in 1..Len(call.texts) :
                (kv[1] \o "=" \o kv[2]) \in FlatPieces(call.texts[i])

(* what does hold: the values that go through the escaping function *)
EscapedValuesRoundTrip ==
    TextCall /\ call.escaped =>
        \A kv \in call.free :
            \E i \in 1..Len(call.texts) :
                (kv[1] \o "=" \o kv[2]) \in FlatPieces(call.texts[i])

(* u * 1024 without a width: five limbs of 16 bits *)
Exact1024(u) ==
    LET m1 == u[1] * 1024
        m2 == u[2] * 1024 + m1 \div 65536
        m3 == u[3] * 1024 + m2 \div 65536
        m4 == u[4] * 1024 + m3 \div 65536
    IN << m1 % 65536, m2 % 65536, m3 % 65536, m4 % 65536, m4 \div 65536 >>

(* the value written under key in a flat option text, "" if there is none *)
FlatValue(text, key) ==
    LET toks == SplitComma(text)
        Is(tok) == Len(tok) > Len(key)
                   /\ SubSeq(tok, 1, Len(key) + 1) = key \o "="
        hits == SelectSeq(toks, Is)
    IN IF hits = <<>> THEN ""
       ELSE SubSeq(hits[1], Len(key) + 2, Len(hits[1]))

(* the number under key in a property tree *)
TreeNumber(tree, key) ==
    LET Is(p) == p.key = key IN SelectSeq(tree, Is)[1].val.u

VideoCall == pc = "returned" /\ call.fn = "qemuBuildDeviceVideoStr"
                /\ call.res.rc = 0

MemoryCall == pc = "returned" /\ call.fn = "qemuBuildMemoryBackendProps"
                 /\ call.res.rc >= 0

(* C14: every field that expects bytes holds the KiB value times 1024 and   *)
(* every field that expects MiB holds the KiB value divided by 1024,        *)
(* exactly: nothing is cut off and nothing wraps around.                    *)
C14_SizesConvertExactly ==
    /\ MemoryCall =>
          TreeNumber(call.res.props.tree, "size") \o << 0 >>
              = Exact1024(U64Of(call.mem.size, call.mem.sizeHigh))
    /\ VideoCall /\ call.video.type = "qxl" =>
          /\ call.video.ram # 0 =>
                FlatValue(call.res.text, "ram_size")
                    = U64Dec(U64Mul1024(U64(call.video.ram)))
          /\ call.video.vram # 0 =>
                FlatValue(call.res.text, "vram_size")
                    = U64Dec(U64Mul1024(U64(call.video.vram)))
          /\ "QEMU_CAPS_QXL_VRAM64" \in caps =>
                FlatValue(call.res.text, "vram64_size_mb") \o "x1024"
                    = Dec(call.video.vram64 \div 1024) \o "x1024"
                /\ (call.video.vram64 \div 1024) * 1024 = call.video.vram64

(* what does hold: the two sizes of the example, and every size whose       *)
(* product fits the width of the field                                      *)
SizesThatFitConvertExactly ==
    /\ MemoryCall /\ call.mem.sizeHigh < 4194304 =>
          TreeNumber(call.res.props.tree, "size") \o << 0 >>
              = Exact1024(U64Of(call.mem.size, call.mem.sizeHigh))
    /\ MemoryCall /\ call.mem.size = 2097152 /\ call.mem.sizeHigh = 0 =>
          U64Dec(TreeNumber(call.res.props.tree, "size")) = "2147483648"
    /\ VideoCall /\ call.video.type = "qxl" /\ call.video.ram = 65536 =>
          FlatValue(call.res.text, "ram_size") = "67108864"
    /\ VideoCall /\ call.video.type = "qxl" /\ call.video.ram # 0
          /\ call.video.ram < 4194304 =>
          FlatValue(call.res.text, "ram_size")
              = U64Dec(U64Mul1024(U64(call.video.ram)))
    /\ VideoCall /\ call.video.type = "vga" /\ call.video.vram = 65536
          /\ call.video.backend = "default"
          /\ "QEMU_CAPS_VGA_VGAMEM" \in caps =>
          FlatValue(call.res.text, "vgamem_mb") = "64"

AudioCall == pc = "returned" /\ call.fn = "qemuBuildAudioCommandLine"
                /\ call.res.rc = 0

HasAudiodev(res) == \E i \in 1..Len(res.argv) : res.argv[i] = "-audiodev"

(* the name of an environment variable: the text before the first "=" *)
EnvName(pair) == SubSeq(pair, 1, Find(pair, "=", 1) - 1)

(* C15 as stated: no pass has both an -audiodev argument and an environment *)
(* variable of the audio configuration.                                     *)
C15_AudiodevOrEnvironment ==
    AudioCall => ~(HasAudiodev(call.res) /\ call.res.env # <<>>)

(* C15: the audio backends are written as -audiodev arguments exactly when  *)
(* QEMU_CAPS_AUDIODEV is set and as QEMU_* environment variables only when  *)
(* it is not; the one variable written together with -audiodev is           *)
(* SDL_AUDIODRIVER, for an SDL backend with a driver.                       *)
C15_AudiodevOrLegacyEnvironment ==
    AudioCall =>
        /\ HasAudiodev(call.res) =>
              /\ "QEMU_CAPS_AUDIODEV" \in caps
              /\ \A i \in 1..Len(call.res.env) :
                    EnvName(call.res.env[i]) = "SDL_AUDIODRIVER"
        /\ "QEMU_CAPS_AUDIODEV" \in caps =>
              /\ Len(call.res.argv) = 2 * Len(def.audios)
              /\ Len(call.res.env)
                    = Cardinality({ i \in 1..Len(def.audios) :
                                      /\ def.audios[i].type = "sdl"
                                      /\ def.audios[i].sdlDriver # "" })
        /\ "QEMU_CAPS_AUDIODEV" \notin caps =>
              /\ call.res.argv = <<>>
              /\ (call.res.env # <<>>) = (Len(def.audios) = 1)

(* an SDL backend with a driver, written as -audiodev *)
C15_SDLDriverWithAudiodev ==
    /\ AudioCall
    /\ HasAudiodev(call.res)
    /\ \E i \in 1..Len(call.res.env) :
          call.res.env[i] = "SDL_AUDIODRIVER=pulseaudio"


-----------------------------------------------------------------------------
(* Capability flags and the fragments they shape *)

(* every flag some builder of the model reads *)
CapFlags ==
    AllCaps \cup DiskFrontendFlags \cup DiskSettingFlags
        \cup { "QEMU_CAPS_AUDIODEV", "QEMU_CAPS_ISCSI_PASSWORD_SECRET" }

(* the flags qemuBuildVirtioDevStr reads *)
VirtioDevStrFlags ==
    { "QEMU_CAPS_VIRTIO_PCI_TRANSITIONAL",
      "QEMU_CAPS_VIRTIO_PCI_DISABLE_LEGACY" }

(* the flags qemuBuildDiskDeviceStr and its callees read *)
DiskDeviceStrFlags ==
    VirtioDevStrFlags
        \cup { "QEMU_CAPS_SCSI_DISK_DEVICE_ID", "QEMU_CAPS_VIRTIO_IOEVENTFD",
               "QEMU_CAPS_VIRTIO_BLK_EVENT_IDX", "QEMU_CAPS_VIRTIO_BLK_SCSI",
               "QEMU_CAPS_VIRTIO_BLK_SCSI_DEFAULT_DISABLED",
               "QEMU_CAPS_DISK_SHARE_RW", "QEMU_CAPS_BLOCKDEV",
               "QEMU_CAPS_BLOCKIO", "QEMU_CAPS_USB_STORAGE_REMOVABLE",
               "QEMU_CAPS_DISK_WRITE_CACHE", "QEMU_CAPS_STORAGE_WERROR" }

DiskCall == pc = "returned" /\ call.fn = "qemuBuildDiskDeviceStr"

(* C16: two capability sets that differ only in a flag the builder does    *)
(* not read give the same fragment: the disk frontend text and the virtio  *)
(* device name are what they are with any other flag added or removed.     *)
C16_UnrelatedFlagLeavesFragment ==
    /\ DiskCall =>
          \A f \in CapFlags \ DiskDeviceStrFlags :
             /\ qemuBuildDiskDeviceStr(def, call.dev, caps \cup {f}) = call.res
             /\ qemuBuildDiskDeviceStr(def, call.dev, caps \ {f}) = call.res
    /\ VirtioCall =>
          \A f \in CapFlags \ VirtioDevStrFlags :
             /\ qemuBuildVirtioDevStr(call.baseName, caps \cup {f},
                                      call.devtype, call.dev) = call.res
             /\ qemuBuildVirtioDevStr(call.baseName, caps \ {f},
                                      call.devtype, call.dev) = call.res

(* a shared disk was given its text by a binary that has -audiodev but no  *)
(* share-rw property                                                        *)
C16_SharedDiskWithAudiodev ==
    /\ DiskCall
    /\ call.res.rc = 0
    /\ call.dev.shared
    /\ "QEMU_CAPS_AUDIODEV" \in caps
    /\ "QEMU_CAPS_DISK_SHARE_RW" \notin caps

-----------------------------------------------------------------------------
(* Repeated passes *)

SecondPassReturned == pc = "done" /\ call.fn = "qemuBuildCommandLine"

-----------------------------------------------------------------------------
(* The master key *)

IsMasterKey(f) == f.cat = "master-key"

(* C18: on a binary without -object secret the master key builder returns   *)
(* success and adds nothing: the pass goes on to the next builder with the   *)
(* command as it was and no error reported.                                  *)
C18_NoSecretObjectIsNoFailure ==
    [][(pc = "MasterKey" /\ "QEMU_CAPS_OBJECT_SECRET" \notin caps)
          => /\ pc' = After("MasterKey")
             /\ cmd' = cmd
             /\ ret' = "none"
             /\ err' = NoErr
             /\ failed' = failed]_vars

(* a pass on such a binary returned a command without a master key object,  *)
(* for a definition whose master key could not have been set up             *)
C18_ReturnedWithoutMasterKey ==
    /\ pc = "done"
    /\ ret = "cmd"
    /\ "QEMU_CAPS_OBJECT_SECRET" \notin caps
    /\ def.bad = "MasterKey"
    /\ SelectSeq(cmd, IsMasterKey) = <<>>
    /\ Len(cmd) > 0

-----------------------------------------------------------------------------
(* Failures and their errors *)

(* the builders of the model that can return failure without reporting *)
SilentBuilders == { "Clock", "Graphics", "TPMs" }

(* C19: a pass that fails has reported an error.                            *)
C19_EveryFailureReportsError ==
    (pc = "done" /\ ret = "NULL") => err # NoErr

(* Outside the clock, graphics and TPM builders a failed pass has reported  *)
(* an error.                                                                *)
FailuresElsewhereReportError ==
    (pc = "done" /\ ret = "NULL" /\ failed \cap SilentBuilders = {})
        => err # NoErr

(* a dispatch on a value outside the enumeration reports the range error    *)
EnumRangeErrorReported ==
    (pc = "done" /\ ret = "NULL" /\ def.graphics = << "last" >>
        /\ failed = { "Graphics" })
        => err.code = "VIR_ERR_INTERNAL_ERROR"

-----------------------------------------------------------------------------
(* The device text of a plain virtio-blk disk *)

HasPrefix(text, p) == Len(text) >= Len(p) /\ SubSeq(text, 1, Len(p)) = p

HasInfix(text, p) ==
    \E i \in 1..(Len(text) - Len(p) + 1) : SubSeq(text, i, i + Len(p) - 1) = p

(* the disk of the example was given its text: virtio-blk with nothing      *)
(* optional set, at slot 5 function 0 of the controller pci.0, alias        *)
(* virtio-disk0, backend alias drive0                                       *)
PlainVirtioBlkCall ==
    /\ DiskCall
    /\ call.dev = PlainVirtioDisk
    /\ FindPCIController(def.controllers, 0) # 0
    /\ PCIContAlias(def, def.controllers[FindPCIController(def.controllers, 0)])
           = "pci.0"
    /\ qemuDomainDiskGetBackendAlias(call.dev, caps) = "drive0"

NoCacheOrThrottlingKeys(text) ==
    \A k \in { "cache", "throttling", "iops", "bps" } : ~HasInfix(text, k)

(* binaries whose virtio-blk has the scsi property enabled by default get   *)
(* it switched off                                                          *)
ScsiOffWritten ==
    /\ "QEMU_CAPS_VIRTIO_BLK_SCSI" \in caps
    /\ "QEMU_CAPS_VIRTIO_BLK_SCSI_DEFAULT_DISABLED" \notin caps

(* C20 as stated: the text of the example disk begins with                  *)
(* virtio-blk-pci,bus=pci.0,addr=0x5, contains ,drive=drive0,id=virtio-disk0 *)
(* and has no throttling or cache key.                                      *)
C20_PlainVirtioBlkText ==
    PlainVirtioBlkCall
        => /\ call.res.rc = 0
           /\ HasPrefix(call.res.text, "virtio-blk-pci,bus=pci.0,addr=0x5")
           /\ HasInfix(call.res.text, ",drive=drive0,id=virtio-disk0")
           /\ NoCacheOrThrottlingKeys(call.res.text)

(* C20 amended: the same, with ,scsi=off between the device name and the    *)
(* address on a binary whose virtio-blk has the scsi property enabled by    *)
(* default.                                                                 *)
C20_PlainVirtioBlkTextByBinary ==
    PlainVirtioBlkCall
        => /\ call.res.rc = 0
           /\ HasPrefix(call.res.text,
                        "virtio-blk-pci"
                            \o (IF ScsiOffWritten THEN ",scsi=off" ELSE "")
                            \o ",bus=pci.0,addr=0x5")
           /\ HasInfix(call.res.text, ",drive=drive0,id=virtio-disk0")
           /\ NoCacheOrThrottlingKeys(call.res.text)

(* the example disk on a binary that writes no scsi property *)
C20_PlainVirtioBlkReturned ==
    /\ PlainVirtioBlkCall
    /\ ~ScsiOffWritten
    /\ call.res.text
          = "virtio-blk-pci,bus=pci.0,addr=0x5,drive=drive0,id=virtio-disk0"

-----------------------------------------------------------------------------
(* C21: under the -blockdev strategy the layers of one disk's image chain   *)
(* are attached from the innermost backing file outward: of two fragments   *)
(* that belong to layers of the same disk, the earlier one never belongs to *)
(* a layer above the later one's (layer 1 is the top layer), so all         *)
(* fragments of a deeper layer precede all fragments of the layer above it  *)
(* and the top layer's fragments come last.                                 *)
LayerFragment(f) == f.cat = "storage" /\ f.dev # "" /\ f.layer >= 1

C21_BackingLayersFirst ==
    Blockdev(caps) =>
        LET fs == SelectSeq(cmd, LayerFragment) IN
        \A i, j \in 1..Len(fs) :
            (i < j /\ fs[i].dev = fs[j].dev) => fs[i].layer >= fs[j].layer

C21_LayeredDiskReturned ==
    /\ ret = "cmd" /\ Blockdev(caps)
    /\ LET fs == SelectSeq(cmd, LayerFragment) IN
       \E i, j \in 1..Len(fs) :
           /\ i < j /\ fs[i].dev = fs[j].dev
           /\ fs[i].layer = MaxLayers /\ fs[j].layer = 1
           /\ fs[i].kind # "backend"

-----------------------------------------------------------------------------
(* Memory backend objects of the returned command: the -object fragments of *)
(* the default RAM, of the NUMA cells and of memory devices                 *)
MemoryBackendTypes ==
    [ram   |-> "QEMU_CAPS_OBJECT_MEMORY_RAM",
     file  |-> "QEMU_CAPS_OBJECT_MEMORY_FILE",
     memfd |-> "QEMU_CAPS_OBJECT_MEMORY_MEMFD"]

BackendOfType(f, t) ==
    /\ f.flag = "-object"
    /\ \/ HasPrefix(f.text, "memory-backend-" \o t \o ",")
       \/ HasPrefix(f.text, "{\"qom-type\":\"memory-backend-" \o t \o "\"")

(* C22: no memory backend object of type ram, file or memfd is in a         *)
(* returned argument sequence unless the capability of that very type is in *)
(* the capability set.                                                      *)
C22_BackendNeedsItsCapability ==
    ret = "cmd" =>
        \A i \in 1..Len(cmd) : \A t \in DOMAIN MemoryBackendTypes :
            BackendOfType(cmd[i], t) => MemoryBackendTypes[t] \in caps

(* what does hold: a memfd backend is never written without its capability. *)
(* A ram or file backend is: qemuBuildMemoryBackendProps returns 1 ahead of *)
(* its capability checks when nothing that needs a backend was asked for,   *)
(* and the default RAM of the machine and a NUMA cell beside one that needs *)
(* a backend are written all the same.                                      *)
C22_MemfdNeedsItsCapability ==
    ret = "cmd" =>
        \A i \in 1..Len(cmd) :
            BackendOfType(cmd[i], "memfd")
                => MemoryBackendTypes["memfd"] \in caps

C22_RamBackendWithoutCapability ==
    /\ ret = "cmd"
    /\ "QEMU_CAPS_OBJECT_MEMORY_RAM" \notin caps
    /\ \E i \in 1..Len(cmd) :
          BackendOfType(cmd[i], "ram") /\ cmd[i].cat \in { "memory", "numa" }

-----------------------------------------------------------------------------
(* the -device fragments that the panic device at position i of def.panics  *)
(* (from 1) contributed                                                     *)
PanicFragments(i) ==
    { j \in 1..Len(cmd) :
        /\ cmd[j].cat = "panic" /\ cmd[j].flag = "-device"
        /\ cmd[j].dev = "panic" \o Dec(i - 1) }

(* C23: each panic device of the isa model contributes exactly one -device  *)
(* argument pair to the returned command, whatever the type of its address, *)
(* and no panic device contributes more than one (the case of the isa model *)
(* running into the next cases emits nothing more).                         *)
C23_OnePairPerISAPanic ==
    ret = "cmd" =>
        \A i \in 1..Len(def.panics) :
            /\ Cardinality(PanicFragments(i)) <= 1
            /\ def.panics[i].model = "isa"
                  => Cardinality(PanicFragments(i)) = 1

(* what does hold: one pair for an isa panic device whose address is of     *)
(* type isa or none, none for any other device, never two                   *)
C23_OnePairForISAOrNoAddress ==
    ret = "cmd" =>
        \A i \in 1..Len(def.panics) :
            Cardinality(PanicFragments(i))
                = IF /\ def.panics[i].model = "isa"
                     /\ def.panics[i].info.type \in { "isa", "none" }
                  THEN 1 ELSE 0

C23_ISAPanicWithoutDevice ==
    /\ ret = "cmd"
    /\ \E i \in 1..Len(def.panics) :
          def.panics[i].model = "isa" /\ PanicFragments(i) = {}

-----------------------------------------------------------------------------
(* The NUMA part of the command: the positions of the -numa node fragments, *)
(* the node a fragment is for, and how it names the node's memory           *)
NumaNodeFragments ==
    { j \in 1..Len(cmd) :
        /\ cmd[j].cat = "numa" /\ cmd[j].flag = "-numa"
        /\ HasPrefix(cmd[j].text, "node,nodeid=") }

NodeId(j) == Cardinality({ k \in NumaNodeFragments : k < j })

UsesMemdev(j) ==
    /\ HasInfix(cmd[j].text, ",memdev=ram-node" \o Dec(NodeId(j)))
    /\ ~HasInfix(cmd[j].text, ",mem=")

UsesMem(j) ==
    HasInfix(cmd[j].text, ",mem=") /\ ~HasInfix(cmd[j].text, ",memdev=")

ObjectBefore(j) == j > 1 /\ cmd[j - 1].cat = "numa" /\ cmd[j - 1].flag = "-object"

DefinesNode(f, n) ==
    \/ HasInfix(f.text, ",id=ram-node" \o Dec(n) \o ",")
    \/ HasInfix(f.text, "\"id\":\"ram-node" \o Dec(n) \o "\"")

(* C24: in the NUMA part of a returned command either every -numa node      *)
(* fragment has memdev=ram-node<i> and comes right after a non-empty        *)
(* -object fragment that defines ram-node<i>, or every -numa node fragment  *)
(* has mem=; the two are never combined.                                    *)
C24_MemdevOrMem ==
    ret = "cmd" =>
        \/ \A j \in NumaNodeFragments :
              /\ UsesMemdev(j) /\ ObjectBefore(j)
              /\ cmd[j - 1].text # ""
              /\ DefinesNode(cmd[j - 1], NodeId(j))
        \/ \A j \in NumaNodeFragments : UsesMem(j)

(* what does hold: memdev= and mem= are never combined and every memdev=    *)
(* node comes right after an -object fragment, which defines ram-node<i>    *)
(* unless the binary has none of the three memory backend objects: then it  *)
(* is empty                                                                 *)
C24_NeverCombined ==
    ret = "cmd" =>
        \/ \A j \in NumaNodeFragments :
              /\ UsesMemdev(j) /\ ObjectBefore(j)
              /\ IF caps \cap { "QEMU_CAPS_OBJECT_MEMORY_RAM",
                                "QEMU_CAPS_OBJECT_MEMORY_FILE",
                                "QEMU_CAPS_OBJECT_MEMORY_MEMFD" } = {}
                 THEN cmd[j - 1].text = ""
                 ELSE DefinesNode(cmd[j - 1], NodeId(j))
        \/ \A j \in NumaNodeFragments : UsesMem(j)

C24_MemdevAfterEmptyObject ==
    /\ ret = "cmd"
    /\ \E j \in NumaNodeFragments :
          UsesMemdev(j) /\ ObjectBefore(j) /\ cmd[j - 1].text = ""

C24_TwoNodesWithBackends ==
    /\ ret = "cmd"
    /\ Cardinality(NumaNodeFragments) = 2
    /\ \A j \in NumaNodeFragments :
          UsesMemdev(j) /\ ObjectBefore(j)
          /\ DefinesNode(cmd[j - 1], NodeId(j))

C24_TwoNodesWithMem ==
    /\ ret = "cmd"
    /\ Cardinality(NumaNodeFragments) = 2
    /\ \A j \in NumaNodeFragments : UsesMem(j)

-----------------------------------------------------------------------------
(* C25: over any number of passes on the same definition the local offset   *)
(* of the host is added to the adjustment of a variable clock at most once. *)
(* In every step of a pass: a variable clock with basis localtime is either *)
(* converted (the offset of the host is added to the adjustment and the     *)
(* basis becomes utc) or, when the offset of the host cannot be read, left  *)
(* as it is by a pass that fails there; it is touched by the clock step     *)
(* only; and a clock with any other offset or basis keeps its adjustment    *)
(* and its basis, so that no later pass adds the offset again.              *)
ClockConverted ==
    /\ pc = "Clock"
    /\ def'.clock.basis = "utc"
    /\ \E tz \in TzOutcomes :
          /\ tz.ok
          /\ def'.clock.adjustment = def.clock.adjustment + tz.localOffset

ClockKept ==
    /\ def'.clock.adjustment = def.clock.adjustment
    /\ def'.clock.basis = def.clock.basis

C25_LocalOffsetAddedAtMostOnce ==
    [][pc # "done" =>
          IF def.clock.offset = "variable" /\ def.clock.basis = "localtime"
          THEN \/ ClockConverted
               \/ ClockKept /\ pc # "Clock"
               \/ ClockKept /\ pc' = "done" /\ ret' = "NULL"
          ELSE ClockKept]_vars

(* a second pass on the definition that the first pass converted has        *)
(* returned, and the adjustment is the given one plus one local offset      *)
C25_SecondPassOnConvertedClock ==
    /\ SecondPassReturned /\ ret = "cmd"
    /\ def0.clock.offset = "variable" /\ def0.clock.basis = "localtime"
    /\ call.clock.basis = "utc"
    /\ call.clock.adjustment = def0.clock.adjustment + 3600
    /\ def.clock = call.clock

-----------------------------------------------------------------------------
(* the descriptor sets a fragment names as /dev/fdset/N that no earlier     *)
(* -add-fd fragment has created                                             *)
SetsNotYetAdded(i) ==
    { fd \in cmd[i].fdsets : ~ \E j \in Before(i) : cmd[j].addfd = fd }

(* C26: in a returned command every fragment that names a descriptor set as *)
(* /dev/fdset/N comes after the -add-fd fragment that creates set N.        *)
C26_AddFdBeforeFdset ==
    ret = "cmd" => \A i \in 1..Len(cmd) : SetsNotYetAdded(i) = {}

(* what does hold: outside -tpmdev of a passthrough TPM every set is        *)
(* created first; the two sets of -tpmdev are created by the two -add-fd    *)
(* fragments right after it                                                 *)
C26_OnlyTpmdevAhead ==
    ret = "cmd" =>
        \A i \in 1..Len(cmd) :
            SetsNotYetAdded(i) # {} =>
                /\ cmd[i].flag = "-tpmdev"
                /\ \A fd \in SetsNotYetAdded(i) :
                      \E j \in (i + 1)..Len(cmd) : cmd[j].addfd = fd

C26_TpmdevBeforeItsAddFd ==
    /\ ret = "cmd"
    /\ \E i \in 1..Len(cmd) :
          cmd[i].flag = "-tpmdev" /\ SetsNotYetAdded(i) # {}

C26_ChardevAfterItsAddFd ==
    /\ ret = "cmd"
    /\ \E i \in 1..Len(cmd) :
          /\ cmd[i].flag \in { "-chardev", "-netdev" }
          /\ cmd[i].fdsets # {} /\ SetsNotYetAdded(i) = {}

-----------------------------------------------------------------------------
(* the vhost-user video devices of the definition *)
VhostUserVideos ==
    { i \in 1..Len(def.videos) : def.videos[i].backend = "vhostuser" }

TimesPassed(fd, fds) == Cardinality({ k \in 1..Len(fds) : fds[k] = fd })

(* C27: the descriptor of a vhost-user video device is handed to the        *)
(* command at most once.  In the video step of any pass: when a vhost-user  *)
(* video device has -1 stored (its descriptor was handed over before), the  *)
(* step fails with VIR_ERR_INTERNAL_ERROR and hands that descriptor to no   *)
(* command; a stored descriptor that the step hands over is stored as -1    *)
(* afterwards, and is in the command's descriptors exactly once.            *)
C27_VhostUserFdPassedOnce ==
    [][pc = "Video" =>
          /\ (\E i \in VhostUserVideos : def.videos[i].vhost_user_fd = "-1")
                => /\ pc' = "done" /\ ret' = "NULL"
                   /\ err'.code = "VIR_ERR_INTERNAL_ERROR"
          /\ \A i \in VhostUserVideos :
                LET fd == VhostUserFd(def.videos[i].alias) IN
                /\ def.videos[i].vhost_user_fd = "-1"
                      => /\ def'.videos[i].vhost_user_fd = "-1"
                         /\ TimesPassed(fd, cmdFds') = 0
                /\ TimesPassed(fd, cmdFds') <= 1
                /\ TimesPassed(fd, cmdFds') = 1
                      => /\ def.videos[i].vhost_user_fd = fd
                         /\ def'.videos[i].vhost_user_fd = "-1"]_vars

(* a second pass over the definition whose vhost-user descriptor the first  *)
(* pass handed to its command has failed in the video step with an internal *)
(* error                                                                    *)
C27_SecondAttemptRefused ==
    /\ SecondPassReturned
    /\ call.ret = "cmd"
    /\ ret = "NULL" /\ failed = { "Video" }
    /\ err.code = "VIR_ERR_INTERNAL_ERROR"
    /\ \E i \in VhostUserVideos :
          /\ def0.videos[i].vhost_user_fd = VhostUserFd(def.videos[i].alias)
          /\ def.videos[i].vhost_user_fd = "-1"

-----------------------------------------------------------------------------
(* The boot index of the network *)

NetBootIndex == BootNet(def0.bootDevs, 1)

(* the fragments of devices that carry the boot index of the network *)
NetBootFragments ==
    SelectSeq(cmd, LAMBDA f :
        f.flag = "-device"
            /\ HasInfix(f.text, ",bootindex=" \o Dec(NetBootIndex)))

FirstNetEmulated == def0.nets[1].type # "hostdev"

BacksInterface(dev) ==
    \E i \in 1..Len(def0.hostdevs) :
        /\ def0.hostdevs[i].alias = dev
        /\ def0.hostdevs[i].sub = "pci"
        /\ def0.hostdevs[i].parentnet # ""

NetBootListed ==
    /\ NetBootIndex # 0
    /\ Len(def0.nets) > 0
    /\ \A i \in 1..Len(def0.nets) : def0.nets[i].bootIndex = 0
    /\ \A i \in 1..Len(def0.hostdevs) : def0.hostdevs[i].bootIndex = 0

(* C28: when the boot order lists the network and there is an interface,    *)
(* the returned command line has exactly one device with the boot index of  *)
(* the network: the first interface if it is emulated, otherwise a PCI host *)
(* device that backs an interface.                                          *)
C28_BootIndexOnExactlyOneDevice ==
    (ret = "cmd" /\ NetBootListed)
        => /\ Len(NetBootFragments) = 1
           /\ IF FirstNetEmulated
              THEN NetBootFragments[1].dev = def0.nets[1].alias
              ELSE BacksInterface(NetBootFragments[1].dev)

(* what the code guarantees: at most one device carries the boot index, and *)
(* it is the first interface or a PCI host device that backs an interface.  *)
C28_BootIndexOnAtMostOneDevice ==
    (ret = "cmd" /\ NetBootListed)
        => /\ Len(NetBootFragments) <= 1
           /\ \A i \in 1..Len(NetBootFragments) :
                 IF FirstNetEmulated
                 THEN NetBootFragments[i].dev = def0.nets[1].alias
                 ELSE BacksInterface(NetBootFragments[i].dev)
           /\ FirstNetEmulated => Len(NetBootFragments) = 1

(* the boot index was taken by a host device with an unassigned address,    *)
(* which is not on the command line                                         *)
C28_BootIndexLost ==
    /\ ret = "cmd" /\ NetBootListed
    /\ Len(NetBootFragments) = 0
    /\ \E i \in 1..Len(def0.hostdevs) :
          /\ def0.hostdevs[i].parentnet # ""
          /\ def0.hostdevs[i].info.type = "unassigned"
    /\ \E i \in 1..Len(def0.hostdevs) :
          /\ def0.hostdevs[i].parentnet # ""
          /\ def0.hostdevs[i].info.type = "pci"

C28_BootIndexOnHostdev ==
    /\ ret = "cmd" /\ NetBootListed /\ ~FirstNetEmulated
    /\ Len(NetBootFragments) = 1
    /\ BacksInterface(NetBootFragments[1].dev)

-----------------------------------------------------------------------------
(* Teardown of the network filters when an interface fails *)

Aliases(nets, n) == [j \in 1..n |-> nets[j].alias]

TornDown(alias) ==
    \E t \in 1..Len(nwfilterTeardown) : nwfilterTeardown[t] = alias

FailedInterface(k) == NetFailed(def0.nets[k].alias) \in failed

(* C29: when building interface k has failed, the filter teardown was called *)
(* for interface k and for every interface built before it.                 *)
C29_TeardownForFailedAndEarlier ==
    \A k \in 1..Len(def0.nets) :
        FailedInterface(k)
            => \A j \in 1..k : TornDown(def0.nets[j].alias)

(* C29 as the code has it: the teardown is called once for interface k,     *)
(* unless it is the validation of its definition that failed, and then once *)
(* for every interface built before it, in their order.                     *)
C29_TeardownUnlessValidationFailed ==
    \A k \in 1..Len(def0.nets) :
        FailedInterface(k)
            => nwfilterTeardown =
                   (IF "qemuDomainValidateActualNetDef" \in failed
                    THEN <<>> ELSE << def0.nets[k].alias >>)
                       \o Aliases(def0.nets, k - 1)

(* the second interface failed after its validation: teardown for it and    *)
(* for the first                                                            *)
C29_SecondInterfaceFailed ==
    /\ Len(def0.nets) = 2 /\ FailedInterface(2)
    /\ ret = "NULL"
    /\ nwfilterTeardown = << def0.nets[2].alias, def0.nets[1].alias >>

(* the validation of the second interface failed: teardown for the first only *)
C29_SecondInterfaceInvalid ==
    /\ Len(def0.nets) = 2 /\ FailedInterface(2)
    /\ "qemuDomainValidateActualNetDef" \in failed
    /\ nwfilterTeardown = << def0.nets[1].alias >>

-----------------------------------------------------------------------------
(* Socket labels of a UNIX listening character device *)

UnixFdPassCall ==
    /\ call.fn = "qemuBuildChrChardevStr"
    /\ call.dev.type = "unix" /\ call.dev.listen
    /\ "UNIX_FD_PASS" \in call.cdevflags
    /\ "QEMU_CAPS_CHARDEV_FD_PASS_COMMANDLINE" \in caps

(* the descriptors the call opened and neither closed nor handed to the     *)
(* command, which closes its descriptors when it is freed                   *)
LeftOpen(res) == (res.opened \ res.closed) \ Range(res.passed)

(* C30: for a UNIX listening character device with descriptor passing,      *)
(* every successful set-socket-label call is followed by exactly one        *)
(* clear-socket-label call before the builder returns, whether the socket   *)
(* was opened or not, and a failed builder leaves no socket descriptor open. *)
C30_LabelClearedAndSocketClosed ==
    UnixFdPassCall
        => LET l == call.res.labels IN
           /\ \A i \in 1..Len(l) :
                 /\ l[i] = "set"
                       => /\ i < Len(l) /\ l[i + 1] = "clear"
                          /\ (i + 2 <= Len(l) => l[i + 2] # "clear")
                 /\ l[i] = "clear" => i > 1 /\ l[i - 1] = "set"
           /\ call.h # "setlabel" => Len(l) = 2
           /\ call.res.res.rc < 0 => LeftOpen(call.res.res) = {}
           /\ call.res.res.rc < 0 /\ call.h \notin { "logopen", "loglabel" }
                 => call.res.res.opened \subseteq call.res.res.closed

(* the socket was opened, clearing the label failed, and the builder closed *)
(* the socket before it failed                                              *)
C30_ClearFailedAfterOpen ==
    /\ UnixFdPassCall
    /\ call.h = "clearlabel"
    /\ call.res.labels = << "set", "clear" >>
    /\ call.res.res.rc < 0
    /\ call.res.res.opened = { "sock-serial0" }
    /\ call.res.res.closed = { "sock-serial0" }

====
